---- MODULE Spec2Model ----
(***************************************************************************)
(* Model of the website-builder pipeline: input validation                 *)
(* (BusinessInputSchema), slugify / generateRunId, the storage uploader    *)
(* (uploadWebsite, checkBucketExists), the orchestrator (runPipeline), the *)
(* POST /pipeline, /validate and /upload handlers of the HTTP facade, the  *)
(* task-file watcher and the purge script.                                 *)
(*                                                                         *)
(* Strings are sequences of one-character strings.  A JSON value of a      *)
(* request body is a record [t, v]: t is the JavaScript type and v the     *)
(* characters when t = "string".                                           *)
(***************************************************************************)
EXTENDS Integers, Sequences, FiniteSets, TLC

Min(a, b) == IF a < b THEN a ELSE b

Range(s) == {s[i] : i \in 1..Len(s)}

\* n copies of the character c
Rep(c, n) == [i \in 1..n |-> c]

RECURSIVE Concat(_)
\* the concatenation of a sequence of sequences
Concat(ss) == IF ss = <<>> THEN <<>> ELSE Head(ss) \o Concat(Tail(ss))

(***************************************************************************)
(* slugify (src/services/slugify.ts)                                       *)
(***************************************************************************)
SlugMaxLen == 50

Whitespace == {" ", "\t"}

SlugChars == {"a", "b", "s", "o", "z", "0", "7", "9", "-"}

\* String.prototype.toLowerCase on one character ("U+00C9" and "U+00E9" stand
\* for the non-ASCII letters E-acute, upper and lower case)
LowerChar(c) ==
    CASE c = "A" -> "a"
      [] c = "B" -> "b"
      [] c = "S" -> "s"
      [] c = "O" -> "o"
      [] c = "Z" -> "z"
      [] c = "U+00C9" -> "U+00E9"
      [] OTHER -> c

ToLowerCase(s) == [i \in 1..Len(s) |-> LowerChar(s[i])]

\* the characters from the first one that is not whitespace
TrimStart(s) ==
    LET kept == {i \in 1..Len(s) : s[i] \notin Whitespace}
    IN  IF kept = {} THEN <<>>
        ELSE SubSeq(s, CHOOSE i \in kept : \A j \in kept : i <= j, Len(s))

\* the characters up to the last one that is not whitespace
TrimEnd(s) ==
    LET kept == {i \in 1..Len(s) : s[i] \notin Whitespace}
    IN  IF kept = {} THEN <<>>
        ELSE SubSeq(s, 1, CHOOSE i \in kept : \A j \in kept : j <= i)

\* String.prototype.trim
Trim(s) == TrimEnd(TrimStart(s))

\* .replace(/\s+/g, "-"): every maximal run of whitespace becomes one hyphen
ReplaceSpaces(s) ==
    LET FirstOfRun(i) ==
            s[i] \in Whitespace => (i = 1 \/ s[i - 1] \notin Whitespace)
        kept == SelectSeq([i \in 1..Len(s) |-> i], FirstOfRun)
    IN  [k \in 1..Len(kept) |->
            IF s[kept[k]] \in Whitespace THEN "-" ELSE s[kept[k]]]

IsSlugChar(c) == c \in SlugChars

\* .replace(/[^a-z0-9-]/g, "")
RemoveSpecial(s) == SelectSeq(s, IsSlugChar)

\* .replace(/-+/g, "-"): every maximal run of hyphens becomes one hyphen
CollapseHyphens(s) ==
    LET FirstOfRun(i) == s[i] = "-" => (i = 1 \/ s[i - 1] # "-")
        kept == SelectSeq([i \in 1..Len(s) |-> i], FirstOfRun)
    IN  [k \in 1..Len(kept) |-> s[kept[k]]]

\* .replace(/^-|-$/g, ""): one hyphen at the start and one at the end
StripEdgeHyphens(s) ==
    LET a == IF s # <<>> /\ Head(s) = "-" THEN Tail(s) ELSE s
    IN  IF a # <<>> /\ a[Len(a)] = "-" THEN SubSeq(a, 1, Len(a) - 1) ELSE a

\* .substring(0, n)
Substring(s, n) == SubSeq(s, 1, Min(Len(s), n))

slugify(text) ==
    Substring(StripEdgeHyphens(CollapseHyphens(RemoveSpecial(
        ReplaceSpaces(Trim(ToLowerCase(text)))))), SlugMaxLen)

(***************************************************************************)
(* BusinessInputSchema (schemas/business-input.ts): the string fields.     *)
(* The optional fields email, website, photos and hours are validated by   *)
(* the schema library's own format checks and are not part of the model.   *)
(***************************************************************************)
NameMin == 2
NameMax == 100
AddressMin == 5
AddressMax == 200
CityMin == 2
CityMax == 50
StateMin == 2
StateMax == 50
OwnerMin == 2
OwnerMax == 100
CategoryMin == 2
CategoryMax == 50
DescriptionMin == 20
DescriptionMax == 2000

Undefined == [t |-> "undefined", v |-> <<>>]
Str(s) == [t |-> "string", v |-> s]
Num == [t |-> "number", v |-> <<>>]

\* the schema's keys, in declaration order
SchemaFields ==
    <<"business_name", "address", "city", "state", "owner_name",
      "business_category", "description", "phone">>

\* z.string().min(lo, minMsg).max(hi, maxMsg), with .optional() when opt
StringRule(lo, minMsg, hi, maxMsg, opt) ==
    [kind |-> "length", lo |-> lo, hi |-> hi, optional |-> opt,
     minMsg |-> minMsg, maxMsg |-> maxMsg]

\* z.string().regex(.., msg).optional()
RegexRule(msg) ==
    [kind |-> "regex", lo |-> 0, hi |-> 0, optional |-> TRUE,
     minMsg |-> msg, maxMsg |-> msg]

BusinessInputSchema ==
    [business_name |->
        StringRule(NameMin, "Business name must be at least 2 characters",
                   NameMax, "Business name must be at most 100 characters",
                   FALSE),
     address |->
        StringRule(AddressMin, "Address must be at least 5 characters",
                   AddressMax, "Address must be at most 200 characters",
                   FALSE),
     city |->
        StringRule(CityMin, "City must be at least 2 characters",
                   CityMax, "City must be at most 50 characters", FALSE),
     state |->
        StringRule(StateMin, "State must be at least 2 characters",
                   StateMax, "State must be at most 50 characters", FALSE),
     owner_name |->
        StringRule(OwnerMin, "Owner name must be at least 2 characters",
                   OwnerMax, "Owner name must be at most 100 characters",
                   TRUE),
     business_category |->
        StringRule(CategoryMin,
                   "Business category must be at least 2 characters",
                   CategoryMax,
                   "Business category must be at most 50 characters", TRUE),
     description |->
        StringRule(DescriptionMin,
                   "Description must be at least 20 characters",
                   DescriptionMax,
                   "Description must be at most 2000 characters", FALSE),
     phone |-> RegexRule("Invalid phone number format")]

PhoneChars == {"0", "7", "9", " ", "\t", "-", "(", ")"}

\* /^[+]?[0-9\s\-()]+$/
PhoneRegex(s) ==
    LET rest == IF s # <<>> /\ Head(s) = "+" THEN Tail(s) ELSE s
    IN  rest # <<>> /\ \A i \in 1..Len(rest) : rest[i] \in PhoneChars

\* the issues the schema library raises for one key: <<>> or one issue
FieldIssues(field, rule, value) ==
    IF value.t = "undefined"
    THEN IF rule.optional THEN <<>>
         ELSE <<[path |-> field, message |-> "Required"]>>
    ELSE IF value.t # "string"
    THEN <<[path |-> field, message |-> "Expected string, received number"]>>
    ELSE IF rule.kind = "regex"
    THEN IF PhoneRegex(value.v) THEN <<>>
         ELSE <<[path |-> field, message |-> rule.minMsg]>>
    ELSE IF Len(value.v) < rule.lo
    THEN <<[path |-> field, message |-> rule.minMsg]>>
    ELSE IF Len(value.v) > rule.hi
    THEN <<[path |-> field, message |-> rule.maxMsg]>>
    ELSE <<>>

\* BusinessInputSchema.safeParse(rawInput): the issue list, in key order;
\* a body that is not an object gets one issue with the empty path
SafeParseIssues(raw) ==
    IF raw.t # "object"
    THEN <<[path |-> "", message |-> "Expected object, received null"]>>
    ELSE Concat([i \in 1..Len(SchemaFields) |->
                    FieldIssues(SchemaFields[i],
                                BusinessInputSchema[SchemaFields[i]],
                                raw.f[SchemaFields[i]])])

SafeParse(raw) ==
    LET issues == SafeParseIssues(raw)
    IN  [success |-> issues = <<>>, issues |-> issues]

\* POST /validate's error list: (field, message) pairs
ValidationErrors(raw) ==
    LET issues == SafeParse(raw).issues
    IN  [i \in 1..Len(issues) |->
            [field |-> issues[i].path, message |-> issues[i].message]]

(***************************************************************************)
(* Markup text.  A character is a one-character string; "U+00E9" stands    *)
(* for a two-byte and "U+20AC" for a three-byte non-ASCII character, and   *)
(* the two DOCTYPE tokens for the 14 characters they spell.                *)
(***************************************************************************)
DoctypeUpper == "<!DOCTYPE html"
DoctypeLower == "<!doctype html"

\* the number of bytes of one character in UTF-8
Utf8Width(c) ==
    CASE c \in {DoctypeUpper, DoctypeLower} -> 14
      [] c = "U+00E9" -> 2
      [] c = "U+00C9" -> 2
      [] c = "U+20AC" -> 3
      [] OTHER -> 1

RECURSIVE ByteLength(_)
\* Buffer.byteLength(text, "utf-8")
ByteLength(text) ==
    IF text = <<>> THEN 0 ELSE Utf8Width(Head(text)) + ByteLength(Tail(text))

\* htmlContent.includes("<!DOCTYPE html") || htmlContent.includes("<!doctype html")
HasDoctype(text) == DoctypeUpper \in Range(text) \/ DoctypeLower \in Range(text)

\* the markdown code fences the reply may carry: three backquotes, alone or
\* followed by html or json in either case
Fences == {"[fence]html", "[fence]HTML", "[fence]json", "[fence]"}

IsNotFence(c) == c \notin Fences

\* cleanLLMOutput (agents/builder.ts)
cleanLLMOutput(text) == Trim(SelectSeq(text, IsNotFence))

(***************************************************************************)
(* The two agents.  An LLM reply is [kind, msg, text, spec]: the call      *)
(* throws (kind "throw"), answers text that is JSON (kind "json", spec     *)
(* the parsed value) or answers other text (kind "text").                  *)
(***************************************************************************)
NoSpec == [prompt |-> Undefined, styled |-> FALSE]

\* mockArchitect: a fixed template filled with the record's fields
mockArchitect(input) ==
    [prompt |-> Str(<<"C", "r", "e", "a", "t", "e", " ">>
                    \o input.business_name.v),
     styled |-> TRUE]

\* runArchitect: JSON.parse of the cleaned reply, or the raw text as prompt
runArchitect(reply) ==
    IF reply.kind = "json" THEN reply.spec
    ELSE [prompt |-> Str(cleanLLMOutput(reply.text)), styled |-> FALSE]

\* the statements of the architect try block after the call: they read
\* architectOutput.website_generation_prompt.length, which throws a
\* TypeError when the parsed JSON has no such string
ArchitectLogThrows(spec) == spec.prompt.t # "string"

TypeErrorMessage == "Cannot read properties of undefined (reading 'length')"

\* mockBuilder: a fixed template, fonts and colours from the style guide
mockBuilder(spec) ==
    <<DoctypeUpper, "<", "h", "t", "m", "l", ">">>
    \o (IF spec.styled THEN <<"P", "l", "a", "y">> ELSE <<"P", "l", "a", "y">>)
    \o <<"&", "c", "o", "p", "y", ";">>

\* runBuilder: the cleaned reply
runBuilder(reply) == cleanLLMOutput(reply.text)

(***************************************************************************)
(* Result records (schemas/pipeline-result.ts).  A field that is not set   *)
(* is not in the record's domain.                                          *)
(***************************************************************************)
NoResult == [status |-> "none"]

createSuccessResult(run_id, business_slug, storage_path, public_url, html_size_bytes, now) ==
    [status |-> "success", run_id |-> run_id, business_slug |-> business_slug,
     storage_path |-> storage_path, public_url |-> public_url,
     html_size_bytes |-> html_size_bytes, generated_at |-> now]

\* an error record marked as a partial result
createErrorResultPartial(run_id, error_message, error_phase, now) ==
    [status |-> "partial", run_id |-> run_id, error_message |-> error_message,
     error_phase |-> error_phase, generated_at |-> now]

createErrorResult(run_id, error_message, error_phase, now) ==
    [status |-> "error", run_id |-> run_id, error_message |-> error_message,
     error_phase |-> error_phase, generated_at |-> now]

\* the skipUpload return built with the helper for uploaded results
SkipUploadResultWithUrl(run_id, business_slug, html, now) ==
    createSuccessResult(run_id, business_slug, <<>>, <<>>, ByteLength(html),
                        now)

\* the record returned when skipUpload is set (orchestrator.ts)
SkipUploadResult(run_id, business_slug, html, now) ==
    [status |-> "success", run_id |-> run_id, business_slug |-> business_slug,
     html_size_bytes |-> ByteLength(html), generated_at |-> now]

\* a thrown value: an Error instance with its message (the agents, the file
\* system and the storage client throw Error instances)
Error(message) == [isError |-> TRUE, message |-> message]

\* a catch that drops the exception's message
ErrorMessageOfDropped(err) == "Unknown error"

\* err instanceof Error ? err.message : "Unknown error"
ErrorMessageOf(err) == IF err.isError THEN err.message ELSE "Unknown error"

\* "Validation failed: " and the issues as "path: message", joined by "; "
RECURSIVE JoinIssues(_)
JoinIssues(issues) ==
    IF issues = <<>> THEN <<>>
    ELSE <<Head(issues).path, ": ", Head(issues).message>>
         \o (IF Len(issues) > 1 THEN <<"; ">> ELSE <<>>)
         \o JoinIssues(Tail(issues))

ValidationMessage(issues) == <<"Validation failed: ">> \o JoinIssues(issues)

(***************************************************************************)
(* Storage (services/supabase.ts).  The bucket is a function from object   *)
(* paths to contents.                                                      *)
(***************************************************************************)
BUCKET_NAME == "websites"

EmptyStore == [p \in {} |-> <<>>]

Put(store, path, content) ==
    [p \in DOMAIN store \cup {path} |->
        IF p = path THEN content ELSE store[p]]

\* {businessSlug}/{timestamp}/index.html
StoragePath(businessSlug, timestamp) ==
    businessSlug \o <<"/", ToString(timestamp), "/index.html">>

\* getPublicUrl(storagePath)
PublicUrl(storagePath) ==
    <<"/storage/v1/object/public/", BUCKET_NAME, "/">> \o storagePath

StorageFaults == {"none", "service_error", "throw_before", "throw_after"}

\* supabase.storage.from(BUCKET_NAME).upload(path, content, {upsert}): the
\* call throws before or after the service acted, or answers {error}; the
\* service refuses to replace an object unless upsert is set
StorageUpload(store, path, content, upsert, fault) ==
    LET refused == path \in DOMAIN store /\ ~upsert
        failed == fault = "service_error"
        error == IF refused THEN "The resource already exists"
                 ELSE IF failed THEN "Bucket not found" ELSE ""
        after == IF refused \/ failed THEN store ELSE Put(store, path, content)
    IN  IF fault = "throw_before"
        THEN [threw |-> TRUE, err |-> Error("fetch failed"), error |-> "",
              store |-> store]
        ELSE IF fault = "throw_after"
        THEN [threw |-> TRUE, err |-> Error("fetch failed"), error |-> "",
              store |-> after]
        ELSE [threw |-> FALSE, err |-> Error(""), error |-> error,
              store |-> after]

\* upload options that let the service replace an object
UploadOptionsUpsert == [upsert |-> TRUE]

\* the options uploadWebsite passes for index.html: upsert: false
UploadOptions == [upsert |-> FALSE]

NotInitialized ==
    "Supabase client not initialized. Check SUPABASE_URL and SUPABASE_SERVICE_ROLE_KEY."

\* uploadWebsite(businessSlug, htmlContent, runId) with the client
\* configured or not: the UploadResult and the bucket afterwards
uploadWebsite(store, configured, businessSlug, htmlContent, now, fault) ==
    IF ~configured
    THEN [result |-> [success |-> FALSE,
                      error |-> NotInitialized],
          store |-> store]
    ELSE LET storagePath == StoragePath(businessSlug, now)
             sizeBytes == ByteLength(htmlContent)
             r == StorageUpload(store, storagePath, htmlContent,
                               UploadOptions.upsert, fault)
         IN  IF r.threw
             THEN [result |-> [success |-> FALSE,
                               error |-> ErrorMessageOf(r.err),
                               storagePath |-> storagePath],
                   store |-> r.store]
             ELSE IF r.error # ""
             THEN [result |-> [success |-> FALSE, error |-> r.error,
                               storagePath |-> storagePath],
                   store |-> r.store]
             ELSE [result |-> [success |-> TRUE,
                               publicUrl |-> PublicUrl(storagePath),
                               storagePath |-> storagePath,
                               sizeBytes |-> sizeBytes],
                   store |-> r.store]

\* checkBucketExists: false without a client, on {error} and on a throw
checkBucketExists(configured, fault) == configured /\ fault = "none"

(***************************************************************************)
(* Local files (node:fs, node:path).                                       *)
(***************************************************************************)
RECURSIVE PathJoin(_)
\* path.join(...segments): empty segments are skipped
PathJoin(segments) ==
    IF segments = <<>> THEN <<>>
    ELSE LET rest == PathJoin(Tail(segments))
         IN  IF Head(segments) = <<>> THEN rest
             ELSE IF rest = <<>> THEN Head(segments)
             ELSE Head(segments) \o <<"/">> \o rest

\* the output directory of the server and of the watcher:
\* path.join(__dirname, "../output")
OUTPUT_DIR == <<"/app/", "output">>

\* path.join(outputDir, businessSlug, runId) and "index.html" below it
LocalHtmlPath(businessSlug, runId) ==
    PathJoin(<<OUTPUT_DIR, businessSlug, runId, <<"index.html">>>>)

(***************************************************************************)
(* generateRunId and the orchestrator (pipeline/orchestrator.ts).  A run   *)
(* is a record; each stage is a function of the run, of what the outside   *)
(* world answered and of the clock reading.                                *)
(***************************************************************************)
generateRunId(now) == <<"run-", ToString(now)>>

NullBody == [t |-> "null", f |-> <<>>]
Obj(fields) == [t |-> "object", f |-> fields]

NoReply == [code |-> 0]
NoThrow == [site |-> "none", message |-> ""]
NoUpload == [success |-> FALSE, error |-> "not called"]

IdleRun ==
    [pc |-> "idle", body |-> NullBody, useMock |-> FALSE, skipUpload |-> FALSE,
     outputDir |-> FALSE, viaHttp |-> FALSE, runId |-> <<>>, slug |-> <<>>,
     spec |-> NoSpec, html |-> <<>>, warned |-> FALSE, bucketExists |-> FALSE,
     uploadPath |-> <<>>,
     upload |-> NoUpload, result |-> NoResult, reply |-> NoReply,
     log |-> <<>>, completed |-> {}, thrown |-> NoThrow]

\* a handler that answers 200 with whatever runPipeline returned
PostPipelineReplyAlwaysOk(outcome) ==
    IF outcome.threw
    THEN [code |-> 500,
          body |-> [status |-> "error",
                    error_message |-> "Internal pipeline error",
                    error_phase |-> "unknown"]]
    ELSE [code |-> 200, body |-> outcome.result]

\* a handler that builds the 400 body itself from the message and the phase
PostPipelineReplyRewrapped(outcome) ==
    IF outcome.threw
    THEN [code |-> 500,
          body |-> [status |-> "error",
                    error_message |-> "Internal pipeline error",
                    error_phase |-> "unknown"]]
    ELSE IF outcome.result.status = "error"
    THEN [code |-> 400,
          body |-> [status |-> "error",
                    error_message |-> outcome.result.error_message,
                    error_phase |-> outcome.result.error_phase]]
    ELSE [code |-> 200, body |-> outcome.result]

\* the POST /pipeline handler's answer for what runPipeline did: it threw,
\* or it returned a result record
PostPipelineReply(outcome) ==
    IF outcome.threw
    THEN [code |-> 500,
          body |-> [status |-> "error",
                    error_message |-> "Internal pipeline error",
                    error_phase |-> "unknown"]]
    ELSE IF outcome.result.status = "error"
    THEN [code |-> 400, body |-> outcome.result]
    ELSE [code |-> 200, body |-> outcome.result]

\* runPipeline returns result; a run started by the handler is answered
Return(run, result) ==
    [run EXCEPT !.pc = "done", !.result = result,
                !.reply = IF run.viaHttp
                          THEN PostPipelineReply([threw |-> FALSE,
                                                  result |-> result])
                          ELSE NoReply]

\* the test of validation.success with the negation lost
ValidationFailedInverted(validation) == validation.success

\* !validation.success
ValidationFailed(validation) == ~validation.success

\* Phase 1: generateRunId, safeParse, slugify
ValidationStage(body, useMock, skipUpload, outputDir, viaHttp, now) ==
    LET runId == generateRunId(now)
        validation == SafeParse(body)
        run == [IdleRun EXCEPT !.body = body, !.useMock = useMock,
                               !.skipUpload = skipUpload,
                               !.outputDir = outputDir, !.viaHttp = viaHttp,
                               !.runId = runId, !.log = <<"validate">>]
    IN  IF ValidationFailed(validation)
        THEN Return(run, createErrorResult(runId,
                        ValidationMessage(validation.issues), "validation",
                        now))
        ELSE [run EXCEPT !.slug = slugify(body.f.business_name.v),
                         !.completed = {"validate"}, !.pc = "architect"]

\* Phase 2 with a catch that logs and falls through to Phase 3
ArchitectStageNoReturn(run, reply, now) ==
    [run EXCEPT !.log = Append(@, "architect"),
                !.spec = IF run.useMock THEN mockArchitect(run.body.f)
                         ELSE IF reply.kind = "throw" THEN NoSpec
                         ELSE runArchitect(reply),
                !.completed = IF run.useMock \/ reply.kind # "throw"
                              THEN @ \cup {"architect"} ELSE @,
                !.pc = "builder"]

\* Phase 2 with a catch that calls the architect a second time before it
\* gives up
ArchitectStageRetry(run, reply, now) ==
    LET called == [run EXCEPT !.log = Append(@, "architect")]
        failed(site, err) ==
            Return([called EXCEPT !.thrown = [site |-> site,
                                              message |-> err.message]],
                   createErrorResult(run.runId,
                       <<"Architect Agent failed: ", ErrorMessageOf(err)>>,
                       "architect", now))
    IN  IF run.useMock
        THEN [called EXCEPT !.spec = mockArchitect(run.body.f),
                            !.completed = @ \cup {"architect"},
                            !.pc = "builder"]
        ELSE IF reply.kind = "throw"
        THEN IF "architect" \in Range(run.log)
             THEN failed("architect", reply.err)
             ELSE called
        ELSE IF ArchitectLogThrows(runArchitect(reply))
        THEN failed("architect-log", Error(TypeErrorMessage))
        ELSE [called EXCEPT !.spec = runArchitect(reply),
                            !.completed = @ \cup {"architect"},
                            !.pc = "builder"]

\* Phase 2: the architect try block and its catch
ArchitectStage(run, reply, now) ==
    LET called == [run EXCEPT !.log = Append(@, "architect")]
        failed(site, err) ==
            Return([called EXCEPT !.thrown = [site |-> site,
                                              message |-> err.message]],
                   createErrorResult(run.runId,
                       <<"Architect Agent failed: ", ErrorMessageOf(err)>>,
                       "architect", now))
    IN  IF run.useMock
        THEN [called EXCEPT !.spec = mockArchitect(run.body.f),
                            !.completed = @ \cup {"architect"},
                            !.pc = "builder"]
        ELSE IF reply.kind = "throw"
        THEN failed("architect", reply.err)
        ELSE IF ArchitectLogThrows(runArchitect(reply))
        THEN failed("architect-log", Error(TypeErrorMessage))
        ELSE [called EXCEPT !.spec = runArchitect(reply),
                            !.completed = @ \cup {"architect"},
                            !.pc = "builder"]

\* Phase 3 with the output file created before the builder is called
BuilderStageSaveFirst(run, disk, reply, fsThrows, now) ==
    LET called == [run EXCEPT !.log = Append(@, "builder")]
        failed(r, site, err) ==
            Return([r EXCEPT !.thrown = [site |-> site,
                                         message |-> err.message]],
                   createErrorResult(run.runId,
                       <<"Builder Agent failed: ", ErrorMessageOf(err)>>,
                       "builder", now))
        html == IF run.useMock THEN mockBuilder(run.spec) ELSE runBuilder(reply)
        built == [called EXCEPT !.html = html, !.warned = ~HasDoctype(html),
                                !.completed = @ \cup {"builder"}]
        saving == [called EXCEPT !.html = html, !.warned = ~HasDoctype(html),
                                 !.log = Append(@, "write")]
        saved == [saving EXCEPT !.completed = @ \cup {"builder"}]
        finish(r) == IF run.skipUpload
                     THEN Return(r, SkipUploadResult(run.runId, run.slug, html,
                                                     now))
                     ELSE [r EXCEPT !.pc = "bucket"]
        created == IF run.outputDir /\ ~fsThrows
                   THEN Put(disk, LocalHtmlPath(run.slug, run.runId), <<>>)
                   ELSE disk
    IN  IF ~run.useMock /\ reply.kind = "throw"
        THEN [run |-> failed(called, "builder", reply.err), disk |-> created]
        ELSE IF ~run.outputDir
        THEN [run |-> finish(built), disk |-> disk]
        ELSE IF fsThrows
        THEN [run |-> failed(saving, "fs", Error("ENOSPC: no space left")),
              disk |-> disk]
        ELSE [run |-> finish(saved),
              disk |-> Put(disk, LocalHtmlPath(run.slug, run.runId), html)]

\* Phase 3 with a DOCTYPE check that throws instead of logging a warning
BuilderStageStrictDoctype(run, disk, reply, fsThrows, now) ==
    LET called == [run EXCEPT !.log = Append(@, "builder")]
        failed(r, site, err) ==
            Return([r EXCEPT !.thrown = [site |-> site,
                                         message |-> err.message]],
                   createErrorResult(run.runId,
                       <<"Builder Agent failed: ", ErrorMessageOf(err)>>,
                       "builder", now))
        html == IF run.useMock THEN mockBuilder(run.spec) ELSE runBuilder(reply)
        checked == [called EXCEPT !.html = html, !.warned = ~HasDoctype(html)]
        built == [checked EXCEPT !.completed = @ \cup {"builder"}]
        saving == [checked EXCEPT !.log = Append(@, "write")]
        saved == [saving EXCEPT !.completed = @ \cup {"builder"}]
        finish(r) == IF run.skipUpload
                     THEN Return(r, SkipUploadResult(run.runId, run.slug, html,
                                                     now))
                     ELSE [r EXCEPT !.pc = "bucket"]
    IN  IF ~run.useMock /\ reply.kind = "throw"
        THEN [run |-> failed(called, "builder", reply.err), disk |-> disk]
        ELSE IF ~HasDoctype(html)
        THEN [run |-> failed(checked, "builder",
                             Error("Generated HTML is invalid")),
              disk |-> disk]
        ELSE IF ~run.outputDir
        THEN [run |-> finish(built), disk |-> disk]
        ELSE IF fsThrows
        THEN [run |-> failed(saving, "fs", Error("ENOSPC: no space left")),
              disk |-> disk]
        ELSE [run |-> finish(saved),
              disk |-> Put(disk, LocalHtmlPath(run.slug, run.runId), html)]

\* Phase 3: the builder try block (the agent, the DOCTYPE check, the local
\* save) and its catch, then the skipUpload return.  Yields the run and the
\* local files.
BuilderStage(run, disk, reply, fsThrows, now) ==
    LET called == [run EXCEPT !.log = Append(@, "builder")]
        failed(r, site, err) ==
            Return([r EXCEPT !.thrown = [site |-> site,
                                         message |-> err.message]],
                   createErrorResult(run.runId,
                       <<"Builder Agent failed: ", ErrorMessageOf(err)>>,
                       "builder", now))
        html == IF run.useMock THEN mockBuilder(run.spec) ELSE runBuilder(reply)
        built == [called EXCEPT !.html = html, !.warned = ~HasDoctype(html),
                                !.completed = @ \cup {"builder"}]
        saving == [called EXCEPT !.html = html, !.warned = ~HasDoctype(html),
                                 !.log = Append(@, "write")]
        saved == [saving EXCEPT !.completed = @ \cup {"builder"}]
        finish(r) == IF run.skipUpload
                     THEN Return(r, SkipUploadResult(run.runId, run.slug, html,
                                                     now))
                     ELSE [r EXCEPT !.pc = "bucket"]
    IN  IF ~run.useMock /\ reply.kind = "throw"
        THEN [run |-> failed(called, "builder", reply.err), disk |-> disk]
        ELSE IF ~run.outputDir
        THEN [run |-> finish(built), disk |-> disk]
        ELSE IF fsThrows
        THEN [run |-> failed(saving, "fs", Error("ENOSPC: no space left")),
              disk |-> disk]
        ELSE [run |-> finish(saved),
              disk |-> Put(disk, LocalHtmlPath(run.slug, run.runId), html)]

\* Phase 4, first half: checkBucketExists; on false the run logs "attempting
\* upload anyway" and goes on
\* the bucket check without the try block of checkBucketExists: a throw of
\* getBucket leaves runPipeline as an exception
BucketStageUncaught(run, configured, fault) ==
    IF configured /\ fault \in {"throw_before", "throw_after"}
    THEN [run EXCEPT !.log = Append(@, "bucket"),
                     !.thrown = [site |-> "bucket", message |-> "fetch failed"],
                     !.pc = "threw"]
    ELSE [run EXCEPT !.log = Append(@, "bucket"),
                     !.bucketExists = configured /\ fault = "none",
                     !.pc = "upload"]

BucketStage(run, configured, fault) ==
    [run EXCEPT !.log = Append(@, "bucket"),
                !.bucketExists = checkBucketExists(configured, fault),
                !.pc = "upload"]

\* Phase 4, second half: uploadWebsite and the two returns.  Yields the run
\* and the bucket.
UploadStage(run, store, configured, fault, now) ==
    LET called == [run EXCEPT !.log = Append(@, "upload"),
                              !.uploadPath = IF configured
                                             THEN StoragePath(run.slug, now)
                                             ELSE <<>>]
        up == uploadWebsite(store, configured, run.slug, run.html, now, fault)
        uploadResult == up.result
    IN  IF ~uploadResult.success
        THEN [run |-> Return([called EXCEPT !.upload = uploadResult,
                                             !.thrown =
                                 [site |-> "storage",
                                  message |-> uploadResult.error]],
                             createErrorResult(run.runId,
                                 <<"Upload failed: ", uploadResult.error>>,
                                 "upload", now)),
              store |-> up.store]
        ELSE [run |-> Return([called EXCEPT !.upload = uploadResult,
                                             !.completed = @ \cup {"upload"}],
                             createSuccessResult(run.runId, run.slug,
                                 uploadResult.storagePath,
                                 uploadResult.publicUrl,
                                 uploadResult.sizeBytes, now)),
              store |-> up.store]

\* the expected_path of the 404 answer with the handler's absolute htmlPath
ExpectedPathAbsolute(slug, runId) == LocalHtmlPath(slug, runId)

\* the template string output/{slug}/{runId}/index.html
ExpectedPath(slug, runId) ==
    <<"output", "/">> \o slug \o <<"/">> \o runId \o <<"/", "index.html">>

\* the POST /upload handler for the query (runId, slug), a missing parameter
\* being <<>>: its answer, the bucket afterwards and what it did on the way
\* (storage calls made, a failure uploadWebsite declared, an exception caught)
PostUploadReply(files, store, conf, runId, slug, fsThrows, fault, now) ==
    IF runId = <<>> \/ slug = <<>>
    THEN [code |-> 400,
          body |-> [status |-> "error",
                    error_message |->
                        <<"Missing required query params: runId and slug">>],
          store |-> store, calls |-> 0, declared |-> FALSE, threw |-> FALSE]
    ELSE LET htmlPath == LocalHtmlPath(slug, runId)
         IN  IF htmlPath \notin DOMAIN files
             THEN [code |-> 404,
                   body |-> [status |-> "error",
                             error_message |->
                                 <<"HTML file not found: ">> \o htmlPath,
                             expected_path |-> ExpectedPath(slug, runId)],
                   store |-> store, calls |-> 0, declared |-> FALSE,
                   threw |-> FALSE]
             ELSE IF fsThrows
             THEN [code |-> 500,
                   body |-> [status |-> "error",
                             error_message |->
                                 <<"Upload failed: ",
                                   ErrorMessageOf(Error("EACCES: permission denied"))>>],
                   store |-> store, calls |-> 0, declared |-> FALSE,
                   threw |-> TRUE]
             ELSE LET up == uploadWebsite(store, conf, slug, files[htmlPath],
                                          now, fault)
                      result == up.result
                      calls == IF conf THEN 1 ELSE 0
                  IN  IF ~result.success
                      THEN [code |-> 500,
                            body |-> [status |-> "error",
                                      error_message |-> <<result.error>>],
                            store |-> up.store, calls |-> calls,
                            declared |-> TRUE, threw |-> FALSE]
                      ELSE [code |-> 200,
                            body |-> [status |-> "success", run_id |-> runId,
                                      business_slug |-> slug,
                                      public_url |-> result.publicUrl,
                                      storage_path |-> result.storagePath,
                                      html_size_bytes |-> result.sizeBytes],
                            store |-> up.store, calls |-> calls,
                            declared |-> FALSE, threw |-> FALSE]

\* the tasks directory of the server: path.join(__dirname, "../tasks")
TASKS_DIR == <<"/app/", "tasks">>

\* the task file of POST /architect: path.join(tasksDir, runId + ".md")
TaskFilePath(runId) == PathJoin(<<TASKS_DIR, runId \o <<".md">>>>)

\* path.join(taskOutputDir, "architect-spec.json")
SpecFilePath(businessSlug, runId) ==
    PathJoin(<<OUTPUT_DIR, businessSlug, runId, <<"architect-spec.json">>>>)

\* the output_path of the POST /architect answer, and the OUTPUT LOCATION
\* of the task file: output/${businessSlug}/${runId}/index.html
OutputPath(businessSlug, runId) ==
    <<"output", "/">> \o businessSlug \o <<"/">> \o runId
    \o <<"/", "index.html">>

\* the markdown of the task file: run id, slug, output location and prompt
TaskContent(runId, businessSlug, spec) ==
    <<"# Website Generation Task", runId, businessSlug,
      OutputPath(businessSlug, runId), spec.prompt>>

\* the POST /architect handler: its answer and the files afterwards
PostArchitectReply(files, body, useMock, reply, fsThrows, now) ==
    LET validation == SafeParse(body)
        runId == generateRunId(now)
        businessSlug == slugify(body.f.business_name.v)
        architectOutput == IF useMock THEN mockArchitect(body.f)
                           ELSE runArchitect(reply)
        failed(err) ==
            [code |-> 500,
             body |-> [status |-> "error",
                       error_message |->
                           <<"Architect failed: ", ErrorMessageOf(err)>>],
             files |-> files]
    IN  IF ~validation.success
        THEN [code |-> 400,
              body |-> [status |-> "error", errors |-> ValidationErrors(body)],
              files |-> files]
        ELSE IF ~useMock /\ reply.kind = "throw" THEN failed(reply.err)
        ELSE IF fsThrows THEN failed(Error("ENOSPC: no space left"))
        ELSE [code |-> 200,
              body |-> [status |-> "pending_builder", run_id |-> runId,
                        business_slug |-> businessSlug,
                        task_file |-> <<"tasks", "/">> \o runId \o <<".md">>,
                        output_path |-> OutputPath(businessSlug, runId)],
              files |-> Put(Put(files, TaskFilePath(runId),
                                TaskContent(runId, businessSlug,
                                            architectOutput)),
                            SpecFilePath(businessSlug, runId),
                            <<architectOutput>>)]

RECURSIVE Normalize(_)
\* a path as the file system reads it: repeated separators count once
Normalize(p) ==
    IF Len(p) < 2 THEN p
    ELSE IF p[1] = "/" /\ p[2] = "/" THEN Normalize(Tail(p))
    ELSE <<Head(p)>> \o Normalize(Tail(p))

\* the file a path relative to the project directory names
Resolve(relative) == <<"/app/">> \o Normalize(relative)

\* runPipeline(rawInput, options) from its call to its return: the stages in
\* turn, each answered by env; Date.now() reads t0 in Phase 1 and t1 later
runPipeline(rawInput, options, env, t0, t1) ==
    LET v == ValidationStage(rawInput, options.useMock, options.skipUpload,
                             options.outputDir, FALSE, t0)
        a == IF v.pc = "architect"
             THEN ArchitectStage(v, env.architect, t1) ELSE v
        b == IF a.pc = "builder"
             THEN BuilderStage(a, EmptyStore, env.builder, env.fsThrows, t1).run
             ELSE a
        c == IF b.pc = "bucket"
             THEN BucketStage(b, env.configured, env.bucketFault) ELSE b
        d == IF c.pc = "upload"
             THEN UploadStage(c, EmptyStore, env.configured, env.uploadFault,
                              t1).run
             ELSE c
    IN  d.result

(***************************************************************************)
(* The task-file watcher (watcher.ts).  A file name is a sequence of parts  *)
(* and a task file's content a sequence of lines; a directory is a         *)
(* function from file names to contents.                                   *)
(***************************************************************************)
Remove(store, path) == [p \in DOMAIN store \ {path} |-> store[p]]

RECURSIVE RemoveFirst(_, _)
\* String.prototype.replace(part, ""): the first occurrence only
RemoveFirst(s, part) ==
    IF s = <<>> THEN <<>>
    ELSE IF Head(s) = part THEN Tail(s)
    ELSE <<Head(s)>> \o RemoveFirst(Tail(s), part)

\* filename.replace("task-", "").replace(".md", "")
extractTaskId(filename) == RemoveFirst(RemoveFirst(filename, "task-"), ".md")

\* filePath.endsWith(".md")
EndsWithMd(filePath) == filePath # <<>> /\ filePath[Len(filePath)] = ".md"

RECURSIVE PromptLines(_, _)
\* the loop of parseTaskFile: a line "---" toggles inFrontmatter, the other
\* lines are kept while outside the front matter
PromptLines(lines, inFrontmatter) ==
    IF lines = <<>> THEN <<>>
    ELSE IF Head(lines) = "---"
    THEN PromptLines(Tail(lines), ~inFrontmatter)
    ELSE IF ~inFrontmatter
    THEN <<Head(lines)>> \o PromptLines(Tail(lines), inFrontmatter)
    ELSE PromptLines(Tail(lines), inFrontmatter)

IsBlank(line) == line = ""

RECURSIVE TrimBlank(_)
\* promptLines.join("\n").trim(): blank lines at either end are dropped
TrimBlank(lines) ==
    IF lines = <<>> THEN <<>>
    ELSE IF IsBlank(Head(lines)) THEN TrimBlank(Tail(lines))
    ELSE IF IsBlank(lines[Len(lines)])
    THEN TrimBlank(SubSeq(lines, 1, Len(lines) - 1))
    ELSE lines

parseTaskFile(content) == TrimBlank(PromptLines(content, FALSE))

\* `site-${taskId}.html`
OutputFilename(taskId) == <<"site-">> \o taskId \o <<".html">>

\* path.join(OUTPUT_DIR, outputFilename)
WatcherOutputPath(taskId) == PathJoin(<<OUTPUT_DIR, OutputFilename(taskId)>>)

\* the upload options of processTask: upsert: true
WatcherUploadOptions == [upsert |-> TRUE]

IdleTask == [pc |-> "idle", html |-> <<>>, outcome |-> "none"]

Finished(outcome) == [pc |-> "done", html |-> <<>>, outcome |-> outcome]

\* processTask up to its first await: read the file, parse the prompt, return
\* on an empty prompt, else call runBuilder
processTaskStart(dir, filePath) ==
    IF filePath \notin DOMAIN dir THEN Finished("read-failed")
    ELSE IF parseTaskFile(dir[filePath]) = <<>> THEN Finished("empty-prompt")
    ELSE [pc |-> "generating", html |-> <<>>, outcome |-> "none"]

\* processTask from the return of runBuilder to its second await: save the
\* markup locally, then call the storage upload.  Yields the task and the
\* output directory.
processTaskSave(files, filePath, reply, fsThrows) ==
    IF reply.kind = "throw"
    THEN [task |-> Finished("generation-failed"), files |-> files]
    ELSE IF fsThrows
    THEN [task |-> Finished("save-failed"), files |-> files]
    ELSE [task |-> [pc |-> "uploading", html |-> runBuilder(reply),
                    outcome |-> "none"],
          files |-> Put(files,
                        WatcherOutputPath(extractTaskId(filePath)),
                        runBuilder(reply))]

\* processTask from the return of the storage upload to its end: an {error}
\* is logged, then the task file is renamed into the completed directory.
\* Yields the task, the bucket and the two directories.
processTaskFinish(task, store, dir, done, filePath, fault, renameThrows) ==
    LET r == StorageUpload(store, OutputFilename(extractTaskId(filePath)),
                           task.html, WatcherUploadOptions.upsert, fault)
    IN  IF r.threw
        THEN [task |-> Finished("upload-threw"), store |-> r.store,
              dir |-> dir, done |-> done]
        ELSE IF renameThrows
        THEN [task |-> Finished("rename-failed"), store |-> r.store,
              dir |-> dir, done |-> done]
        ELSE [task |-> Finished(IF r.error # "" THEN "moved-upload-failed"
                                ELSE "moved-uploaded"),
              store |-> r.store,
              dir |-> Remove(dir, filePath),
              done |-> Put(done, filePath, dir[filePath])]

(***************************************************************************)
(* The site tables and the three buckets (services/database.ts) and the    *)
(* purge script (scripts/purgeWebsiteFlowUser.ts).  The sites table is a    *)
(* function from site ids to rows, the revisions table a set of rows, a    *)
(* bucket a set of files {slug}/{site id}/{name}.                          *)
(***************************************************************************)
BUCKET_PUBLISHED == "wb-site-published"
BUCKET_SNAPSHOTS == "wb-site-snapshots"
BUCKET_ASSETS == "wb-site-assets"

\* const buckets = [BUCKET_PUBLISHED, BUCKET_SNAPSHOTS, BUCKET_ASSETS]
PurgeBuckets == <<BUCKET_PUBLISHED, BUCKET_SNAPSHOTS, BUCKET_ASSETS>>

\* the ids of the sites table, in the order a select returns the rows
SiteOrder == <<"s1", "s2">>
SiteIds == Range(SiteOrder)

NoSite == [found |-> FALSE, id |-> "", owner_user_id |-> "",
           business_name |-> <<>>]

Row(rows, id) ==
    [found |-> TRUE, id |-> id, owner_user_id |-> rows[id].owner_user_id,
     business_name |-> rows[id].business_name]

\* getSiteById: the row, or null when the select reports an error (which
\* .single() does when no row matches)
getSiteById(rows, siteId, fails) ==
    IF fails \/ siteId \notin DOMAIN rows THEN NoSite ELSE Row(rows, siteId)

\* getSitesByOwner: the owner's rows, or [] when the select reports an error
getSitesByOwner(rows, ownerUserId, fails) ==
    LET Owned(id) == id \in DOMAIN rows /\ rows[id].owner_user_id = ownerUserId
        ids == SelectSeq(SiteOrder, Owned)
    IN  IF fails THEN <<>> ELSE [i \in 1..Len(ids) |-> Row(rows, ids[i])]

\* DeleteSites with a foreign key that does not cascade
DeleteSitesNoCascade(db, ids) ==
    [rows |-> [id \in DOMAIN db.rows \ ids |-> db.rows[id]],
     revs |-> db.revs]

\* delete from website_builder_sites where id in ids; the foreign key of the
\* revisions is ON DELETE CASCADE
DeleteSites(db, ids) ==
    [rows |-> [id \in DOMAIN db.rows \ ids |-> db.rows[id]],
     revs |-> {r \in db.revs : r.site_id \notin ids}]

\* delete from website_builder_revisions where site_id in ids
DeleteRevisions(db, ids) ==
    [rows |-> db.rows, revs |-> {r \in db.revs : r.site_id \notin ids}]

\* deleteSiteById: the revisions, then the site; an error of the first
\* delete is logged, one of the second is returned
deleteSiteById(db, siteId, revFails, siteFails) ==
    LET a == IF revFails THEN db ELSE DeleteRevisions(db, {siteId})
        b == IF siteFails THEN a ELSE DeleteSites(a, {siteId})
    IN  [success |-> ~siteFails, db |-> b]

\* deleteUserSites: the owner's sites are read again, then their revisions
\* and the owner's sites are deleted
deleteUserSites(db, ownerUserId, listFails, revFails, siteFails) ==
    LET found == getSitesByOwner(db.rows, ownerUserId, listFails)
        siteIds == {found[i].id : i \in 1..Len(found)}
        owned == {id \in DOMAIN db.rows :
                     db.rows[id].owner_user_id = ownerUserId}
        a == IF revFails THEN db ELSE DeleteRevisions(db, siteIds)
        b == IF siteFails THEN a ELSE DeleteSites(a, owned)
    IN  IF found = <<>>
        THEN [success |-> TRUE, deletedCount |-> 0, db |-> db]
        ELSE IF siteFails
        THEN [success |-> FALSE, deletedCount |-> 0, db |-> b]
        ELSE [success |-> TRUE, deletedCount |-> Len(found), db |-> b]

File(slug, siteId, name) == [slug |-> slug, site |-> siteId, name |-> name]

\* the two file names the scripts use: index.html and
\* snapshot-${timestamp}.html
IndexHtml == <<"index.html">>
SnapshotName(timestamp) == <<"snapshot-", ToString(timestamp), ".html">>

\* listBucketFiles(bucketName, `${slug}/${site.id}`): the files of that
\* folder, or [] when the list reports an error
listBucketFiles(store, bucketName, slug, siteId, fails) ==
    IF fails THEN {}
    ELSE {f \in store[bucketName] : f.slug = slug /\ f.site = siteId}

\* deleteFromBucket(bucketName, paths): the bucket afterwards
deleteFromBucket(store, bucketName, paths, fails) ==
    IF paths = {} \/ fails THEN store
    ELSE [store EXCEPT ![bucketName] = @ \ paths]

\* const isDryRun = !execute
isDryRun(argv) == ~argv.execute

NoPurge ==
    [pc |-> "off",
     argv |-> [ownerUserId |-> "", siteId |-> "", execute |-> FALSE,
               dryRun |-> FALSE, skipPayments |-> FALSE],
     found |-> <<>>, allFilesToDelete |-> <<>>, exitCode |-> 0,
     failed |-> FALSE, rows |-> [called |-> FALSE, success |-> FALSE]]

\* process.exit(code)
Exit(proc, code) == [proc EXCEPT !.pc = "exit", !.exitCode = code]

\* the script up to main(): the required flag is checked
PurgeStart(argv) ==
    IF argv.ownerUserId = ""
    THEN Exit([NoPurge EXCEPT !.argv = argv], 1)
    ELSE [NoPurge EXCEPT !.argv = argv, !.pc = "gather"]

\* main, step 1: the sites to purge.  Without a storage client the first
\* call throws and main().catch exits with 1.  The field failed records
\* that a database or storage call of the execution reported an error.
PurgeGather(process, rows, conf, fails) ==
    LET proc == [process EXCEPT !.failed = fails \/ ~conf]
    IN  IF ~conf THEN Exit(proc, 1)
        ELSE IF proc.argv.siteId # ""
        THEN LET site == getSiteById(rows, proc.argv.siteId, fails)
             IN  IF ~site.found THEN Exit(proc, 1)
                 ELSE IF site.owner_user_id # proc.argv.ownerUserId
                 THEN Exit(proc, 1)
                 ELSE [proc EXCEPT !.found = <<site>>, !.pc = "list"]
        ELSE LET found == getSitesByOwner(rows, proc.argv.ownerUserId, fails)
             IN  IF found = <<>> THEN Exit(proc, 0)
                 ELSE [proc EXCEPT !.found = found, !.pc = "list"]

RECURSIVE FilesOfSite(_, _, _, _)
\* the inner loop of step 2: the site's files in each bucket that has some
FilesOfSite(store, site, bucketNames, failing) ==
    IF bucketNames = <<>> THEN <<>>
    ELSE LET files == listBucketFiles(store, Head(bucketNames),
                                      slugify(site.business_name), site.id,
                                      Head(bucketNames) \in failing)
             rest == FilesOfSite(store, site, Tail(bucketNames), failing)
         IN  IF files # {}
             THEN <<[bucket |-> Head(bucketNames), paths |-> files]>> \o rest
             ELSE rest

RECURSIVE FilesOfSites(_, _, _)
\* the outer loop of step 2
FilesOfSites(store, found, failing) ==
    IF found = <<>> THEN <<>>
    ELSE FilesOfSite(store, Head(found), PurgeBuckets, failing)
         \o FilesOfSites(store, Tail(found), failing)

\* main, steps 2 to 4: the files are listed, the summary is printed, and a
\* dry run exits
PurgeList(proc, store, failing) ==
    LET listed == [proc EXCEPT !.allFilesToDelete =
                                   FilesOfSites(store, proc.found, failing),
                               !.failed = @ \/ failing # {}]
    IN  IF isDryRun(proc.argv) THEN Exit(listed, 0)
        ELSE [listed EXCEPT !.pc = "delete-files"]

RECURSIVE DeleteAll(_, _, _)
\* step 4a: deleteFromBucket for each entry of allFilesToDelete
DeleteAll(store, entries, failing) ==
    IF entries = <<>> THEN store
    ELSE DeleteAll(deleteFromBucket(store, Head(entries).bucket,
                                    Head(entries).paths,
                                    Head(entries).bucket \in failing),
                   Tail(entries), failing)

\* step 4b: deleteSiteById with --site-id, deleteUserSites without
PurgeDeleteRows(proc, db, listFails, revFails, siteFails) ==
    IF proc.argv.siteId # ""
    THEN deleteSiteById(db, proc.argv.siteId, revFails, siteFails)
    ELSE deleteUserSites(db, proc.argv.ownerUserId, listFails, revFails,
                         siteFails)

(***************************************************************************)
(* The import and override scripts (scripts/                               *)
(* importWebsiteBuilderPublishedHtml.ts, overrideWebsiteBuilderHtml.ts)    *)
(* and the database calls only they make.  Of a row the model keeps the    *)
(* owner, the business name and the markup; the other columns are copied   *)
(* through unchanged by every call and are not part of the model.          *)
(***************************************************************************)
\* the id the database gives an inserted row: one that no row has
FreeSiteIds(rows) == {id \in SiteIds : id \notin DOMAIN rows}
NewSiteId(rows) ==
    SiteOrder[CHOOSE i \in 1..Len(SiteOrder) :
                 /\ SiteOrder[i] \in FreeSiteIds(rows)
                 /\ \A j \in 1..(i - 1) : SiteOrder[j] \notin FreeSiteIds(rows)]

\* upsertSite: with data.id an update of that row, an error when no row has
\* the id (.single()); without it an insert
upsertSite(rows, data, fails) ==
    LET payload == [owner_user_id |-> data.owner_user_id,
                    business_name |-> data.business_name,
                    html_content |-> data.html_content]
        id == IF data.id # "" THEN data.id ELSE NewSiteId(rows)
    IN  IF fails \/ (data.id # "" /\ data.id \notin DOMAIN rows)
        THEN [success |-> FALSE, id |-> "", rows |-> rows]
        ELSE [success |-> TRUE, id |-> id,
              rows |-> [k \in DOMAIN rows \cup {id} |->
                           IF k = id THEN payload ELSE rows[k]]]

\* the id the database gives an inserted revision: a serial number
NewRevisionId(revs) ==
    1 + (IF revs = {} THEN 0
         ELSE CHOOSE n \in {r.id : r \in revs} : \A r \in revs : r.id <= n)

\* createRevision: a row of website_builder_revisions; the foreign key
\* refuses a site_id that no site has
createRevision(db, siteId, fails) ==
    IF fails \/ siteId \notin DOMAIN db.rows
    THEN [success |-> FALSE, revs |-> db.revs]
    ELSE [success |-> TRUE,
          revs |-> db.revs \cup {[id |-> NewRevisionId(db.revs),
                                  site_id |-> siteId]}]

\* uploadToBucket(bucketName, path, content): upsert is true, so a file
\* already at the path is replaced
uploadToBucket(store, bucketName, file, fails) ==
    IF fails THEN [success |-> FALSE, store |-> store]
    ELSE [success |-> TRUE,
          store |-> [store EXCEPT ![bucketName] = @ \cup {file}]]

OverrideTargets == {"published", "snapshot", "both"}

NoScript ==
    [pc |-> "off", kind |-> "",
     argv |-> [ownerUserId |-> "", siteId |-> "", businessName |-> <<>>,
               overwrite |-> FALSE, target |-> "", html |-> ""],
     site |-> NoSite, savedSiteId |-> "", exitCode |-> 0, launched |-> 0]

\* process.exit(code) of the import or override script: the process is
\* gone; the owner and the site it was started for and its exit code are
\* what is left
ScriptExit(proc, code) ==
    [NoScript EXCEPT !.pc = "exit", !.kind = proc.kind,
                     !.argv.ownerUserId = proc.argv.ownerUserId,
                     !.argv.siteId = proc.argv.siteId,
                     !.exitCode = code, !.launched = proc.launched]

\* the import script up to main(): the required flags
ImportStart(argv) ==
    LET proc == [NoScript EXCEPT !.kind = "import", !.argv = argv]
    IN  IF argv.ownerUserId = "" \/ argv.businessName = <<>> \/ argv.html = ""
        THEN ScriptExit(proc, 1)
        ELSE [proc EXCEPT !.pc = "upsert"]

\* import, step 1: --site-id needs --overwrite; the row is upserted with
\* the owner and the business name of the flags
ImportUpsert(proc, rows, conf, fails) ==
    LET siteData == [id |-> proc.argv.siteId,
                     owner_user_id |-> proc.argv.ownerUserId,
                     business_name |-> proc.argv.businessName,
                     html_content |-> proc.argv.html]
        result == upsertSite(rows, siteData, fails)
    IN  IF proc.argv.siteId # "" /\ ~proc.argv.overwrite
        THEN [proc |-> ScriptExit(proc, 1), rows |-> rows]
        ELSE IF ~conf \/ ~result.success
        THEN [proc |-> ScriptExit(proc, 1), rows |-> rows]
        ELSE [proc |-> [proc EXCEPT !.pc = "upload",
                                    !.savedSiteId = result.id],
              rows |-> result.rows]

\* import, step 2: the page goes to {slug}/{savedSiteId}/index.html, the
\* slug being that of the --business-name flag
ImportUpload(proc, store, fails) ==
    LET slug == slugify(proc.argv.businessName)
        storagePath == File(slug, proc.savedSiteId, IndexHtml)
        uploadResult == uploadToBucket(store, BUCKET_PUBLISHED, storagePath,
                                       fails)
    IN  [proc |-> ScriptExit(proc, IF uploadResult.success THEN 0 ELSE 1),
         store |-> uploadResult.store]

\* the override script up to main(): the required flags
OverrideStart(argv) ==
    LET proc == [NoScript EXCEPT !.kind = "override", !.argv = argv]
    IN  IF \/ argv.ownerUserId = ""
           \/ argv.siteId = ""
           \/ argv.target \notin OverrideTargets
           \/ argv.html = ""
        THEN ScriptExit(proc, 1)
        ELSE [proc EXCEPT !.pc = "verify"]

\* after a part of main: the first of the later parts the target asks for
OverrideAfter(proc, part) ==
    IF part = "verify" /\ proc.argv.target \in {"published", "both"}
    THEN [proc EXCEPT !.pc = "update"]
    ELSE IF part \in {"verify", "upload-published"}
            /\ proc.argv.target \in {"snapshot", "both"}
    THEN [proc EXCEPT !.pc = "revision"]
    ELSE ScriptExit(proc, 0)

\* OverrideVerify without the comparison of the owners
OverrideVerifyAnyOwner(proc, rows, conf, fails) ==
    LET site == getSiteById(rows, proc.argv.siteId, fails)
    IN  IF ~conf THEN ScriptExit(proc, 1)
        ELSE IF ~site.found THEN ScriptExit(proc, 1)
        ELSE OverrideAfter([proc EXCEPT !.site = site], "verify")

\* override, step 1: the site exists and belongs to the owner
OverrideVerify(proc, rows, conf, fails) ==
    LET site == getSiteById(rows, proc.argv.siteId, fails)
    IN  IF ~conf THEN ScriptExit(proc, 1)
        ELSE IF ~site.found THEN ScriptExit(proc, 1)
        ELSE IF site.owner_user_id # proc.argv.ownerUserId THEN ScriptExit(proc, 1)
        ELSE OverrideAfter([proc EXCEPT !.site = site], "verify")

\* override, step 2: upsertSite({...site, html_content: htmlContent})
OverrideUpdate(proc, rows, fails) ==
    LET data == [id |-> proc.site.id,
                 owner_user_id |-> proc.site.owner_user_id,
                 business_name |-> proc.site.business_name,
                 html_content |-> proc.argv.html]
        updateResult == upsertSite(rows, data, fails)
    IN  IF ~updateResult.success
        THEN [proc |-> ScriptExit(proc, 1), rows |-> rows]
        ELSE [proc |-> [proc EXCEPT !.pc = "upload-published"],
              rows |-> updateResult.rows]

\* override, step 2: the page goes to {slug}/{siteId}/index.html, the slug
\* being that of the site's business name; an upload error is logged
OverrideUploadPublished(proc, store, fails) ==
    LET slug == slugify(proc.site.business_name)
        storagePath == File(slug, proc.argv.siteId, IndexHtml)
        uploadResult == uploadToBucket(store, BUCKET_PUBLISHED, storagePath,
                                       fails)
    IN  [proc |-> OverrideAfter(proc, "upload-published"),
         store |-> uploadResult.store]

\* override, step 3: createRevision(siteId, htmlContent, "override"); an
\* error is logged
OverrideRevision(proc, db, fails) ==
    [proc |-> [proc EXCEPT !.pc = "upload-snapshot"],
     revs |-> createRevision(db, proc.argv.siteId, fails).revs]

\* override, step 3: the snapshot goes to
\* {slug}/{siteId}/snapshot-{Date.now()}.html; an error is logged
OverrideUploadSnapshot(proc, store, now, fails) ==
    LET slug == slugify(proc.site.business_name)
        snapshotPath == File(slug, proc.argv.siteId, SnapshotName(now))
        snapshotUpload == uploadToBucket(store, BUCKET_SNAPSHOTS,
                                         snapshotPath, fails)
    IN  [proc |-> ScriptExit(proc, 0), store |-> snapshotUpload.store]

(***************************************************************************)
(* The inputs of the model.                                                *)
(***************************************************************************)
MaxClock == 1

\* two requests, served concurrently
Runs == {1, 2}

ValidFields ==
    [business_name |-> Str(<<"S", "o", " ", "O", "z">>),
     address |-> Str(Rep("a", AddressMin)),
     city |-> Str(Rep("a", CityMin)),
     state |-> Str(Rep("a", StateMin)),
     owner_name |-> Undefined,
     business_category |-> Str(Rep("a", CategoryMin)),
     description |-> Str(Rep("a", DescriptionMin)),
     phone |-> Undefined]

PipelineBodies ==
    {NullBody,
     Obj(ValidFields),
     Obj([ValidFields EXCEPT !.business_name = Str(<<"B", "7">>)]),
     Obj([ValidFields EXCEPT !.address = Undefined])}

ArchitectReplies ==
    {[kind |-> "throw", err |-> Error("GEMINI_API_KEY is not configured"),
      text |-> <<>>, spec |-> NoSpec],
     [kind |-> "json", err |-> Error(""), text |-> <<>>, spec |-> NoSpec],
     [kind |-> "text", err |-> Error(""), text |-> <<"[fence]", "a", " ">>,
      spec |-> NoSpec]}

BuilderReplies ==
    {[kind |-> "throw", err |-> Error("503 Service Unavailable"),
      text |-> <<>>],
     [kind |-> "text", err |-> Error(""),
      text |-> <<"[fence]html", " ", "a", "U+20AC", " ", "[fence]">>]}

\* what awaiting runPipeline gives the POST /pipeline handler: a result
\* record, for every request and every answer of the outside world, or an
\* exception that escaped
PipelineOutcomes ==
    {[threw |-> TRUE, result |-> NoResult]} \cup
    {[threw |-> FALSE,
      result |-> runPipeline(body,
                     [useMock |-> useMock, skipUpload |-> skipUpload,
                      outputDir |-> TRUE],
                     [architect |-> architect, builder |-> builder,
                      fsThrows |-> fsThrows, configured |-> conf,
                      bucketFault |-> "none", uploadFault |-> fault],
                     t0, t1)] :
        body \in PipelineBodies, useMock \in BOOLEAN, skipUpload \in BOOLEAN,
        architect \in ArchitectReplies, builder \in BuilderReplies,
        fsThrows \in BOOLEAN, conf \in BOOLEAN, fault \in StorageFaults,
        t0 \in 0..MaxClock, t1 \in 0..MaxClock}

\* the runId and slug query parameters of POST /upload: absent, or those of
\* earlier runs
UploadRunIds == {<<>>} \cup {generateRunId(t) : t \in 0..MaxClock}
UploadSlugs == {<<>>, slugify(<<"S", "o", " ", "O", "z">>), slugify(<<"B", "7">>)}

\* the output directory when the server starts to take POST /upload requests:
\* index.html files that earlier runs saved
SavedFiles ==
    {EmptyStore,
     Put(EmptyStore, LocalHtmlPath(slugify(<<"B", "7">>), generateRunId(0)),
         mockBuilder(NoSpec)),
     Put(Put(EmptyStore,
             LocalHtmlPath(slugify(<<"B", "7">>), generateRunId(0)),
             mockBuilder(NoSpec)),
         LocalHtmlPath(slugify(<<"S", "o", " ", "O", "z">>), generateRunId(0)),
         <<"a", "U+20AC">>)}

\* the files that can appear in the pending directory, in the order
\* readdirSync lists them, and what a task file can hold
FileOrder ==
    <<<<"notes", ".txt">>, <<"task-", "1", ".md">>, <<"task-", "2", ".md">>>>
FileNames == Range(FileOrder)
TaskContents ==
    {<<"---", "id: 1", "---", "", "Build a site", "">>,
     <<"---", "id: 1", "---", "">>}

\* the pending directories the watcher can find when it starts
PendingDirs == UNION {[names -> TaskContents] : names \in SUBSET FileNames}

\* fs.readdirSync(PENDING_DIR).filter((f) => f.endsWith(".md"))
ReaddirMd(dir) ==
    LET Test(f) == f \in DOMAIN dir /\ EndsWithMd(f)
    IN  SelectSeq(FileOrder, Test)

\* the flags of the purge script
PurgeArgs ==
    [ownerUserId : {"", "u1", "u2"}, siteId : {"", "s1", "s2", "s9"},
     execute : BOOLEAN, dryRun : BOOLEAN, skipPayments : {FALSE}]

\* the tables and buckets the purge script can find: site s1 of owner u1,
\* with or without site s2 of u1 or u2, each with its published page, and
\* s1 with or without a revision and its snapshot
Databases ==
    {[rows |-> rows, revs |-> revs, store |-> store] :
        rows \in {[id \in {"s1"} |->
                     [owner_user_id |-> "u1",
                      business_name |-> <<"S", "o", " ", "O", "z">>]]}
                 \cup
                 {[id \in {"s1", "s2"} |->
                     [owner_user_id |-> IF id = "s1" THEN "u1" ELSE o,
                      business_name |-> IF id = "s1"
                                        THEN <<"S", "o", " ", "O", "z">>
                                        ELSE <<"B", "7">>]] :
                     o \in {"u1", "u2"}},
        revs \in {{}, {[id |-> 1, site_id |-> "s1"]}},
        store \in {[b \in Range(PurgeBuckets) |-> {}]}} \cup
    {[rows |-> rows, revs |-> revs,
      store |-> [b \in Range(PurgeBuckets) |->
                    IF b = BUCKET_PUBLISHED
                    THEN {File(slugify(rows[id].business_name), id,
                               IndexHtml) : id \in DOMAIN rows}
                    ELSE IF b = BUCKET_SNAPSHOTS
                    THEN {File(slugify(rows[r.site_id].business_name),
                               r.site_id, SnapshotName(0)) : r \in revs}
                    ELSE {}]] :
        rows \in {[id \in {"s1", "s2"} |->
                     [owner_user_id |-> IF id = "s1" THEN "u1" ELSE o,
                      business_name |-> IF id = "s1"
                                        THEN <<"S", "o", " ", "O", "z">>
                                        ELSE <<"B", "7">>]] :
                     o \in {"u1", "u2"}},
        revs \in {{}, {[id |-> 1, site_id |-> "s1"]}}}

\* the request bodies of the hand-over from a producer of index.html to
\* POST /upload: invalid, and valid with business names of different slugs
HandoffBodies ==
    {Obj([ValidFields EXCEPT !.address = Undefined]),
     Obj(ValidFields),
     Obj([ValidFields EXCEPT !.business_name = Str(<<"B", "7">>)]),
     Obj([ValidFields EXCEPT !.business_name = Str(<<"-", "-">>)])}

\* what the builder outside the server saves at the output location
HandoffPages == {mockBuilder(NoSpec), <<"a", "U+20AC">>}

\* how many hand-overs are started
MaxHandoffs == 2

\* how many import and override executions precede the purge
MaxScripts == 2

BusinessNames == {<<"S", "o", " ", "O", "z">>, <<"B", "7">>}

\* the flags of the import script
ImportArgs ==
    [ownerUserId : {"u1", "u2"}, siteId : {"", "s1"},
     businessName : BusinessNames, overwrite : BOOLEAN,
     target : {""}, html : {"h1"}] \cup
    [ownerUserId : {"", "u1"}, siteId : {""},
     businessName : {<<>>, <<"B", "7">>}, overwrite : {FALSE}, target : {""},
     html : {"", "h1"}]

\* the flags of the override script
OverrideArgs ==
    [ownerUserId : {"u1", "u2"}, siteId : {"s1", "s2"},
     businessName : {<<>>}, overwrite : {FALSE},
     target : OverrideTargets, html : {"h2"}] \cup
    [ownerUserId : {"", "u1"}, siteId : {"", "s1"},
     businessName : {<<>>}, overwrite : {FALSE},
     target : {"published", "draft"}, html : {"", "h2"}]

MaxSegments == 3

\* the characters and the run lengths slugify's inputs are built from
SlugAlphabet == {"a", "B", " ", "-", "!", "U+00C9"}
SlugSegments == {Rep(c, n) : c \in SlugAlphabet, n \in {1, 2, SlugMaxLen - 1}}

SlugInputs ==
    UNION {{Concat(segs) : segs \in [1..k -> SlugSegments]} : k \in 0..MaxSegments}

\* request bodies for the validator: every key absent, of the wrong type, or a
\* string at or next to the limits of its rule
ValidateBodies ==
    {NullBody} \cup
    {Obj([business_name |-> n, address |-> a, city |-> c, state |-> st,
          owner_name |-> o, business_category |-> cat, description |-> d,
          phone |-> ph]) :
        n \in {Undefined, Num, Str(Rep("a", NameMin - 1)),
               Str(Rep("a", NameMin)), Str(Rep("a", NameMax + 1))},
        a \in {Undefined, Str(Rep("a", AddressMin - 1)),
               Str(Rep("a", AddressMin)), Str(Rep("a", AddressMax + 1))},
        c \in {Undefined, Str(Rep("a", CityMin)), Str(Rep("a", CityMax + 1))},
        st \in {Undefined, Str(Rep("a", StateMin - 1)),
                Str(Rep("a", StateMax))},
        o \in {Undefined, Str(Rep("a", OwnerMin - 1)),
               Str(Rep("a", OwnerMin))},
        cat \in {Undefined, Str(Rep("a", CategoryMin - 1)),
                 Str(Rep("a", CategoryMin))},
        d \in {Undefined, Str(Rep("a", DescriptionMin - 1)),
               Str(Rep("a", DescriptionMin)),
               Str(Rep("a", DescriptionMax + 1))},
        ph \in {Undefined, Str(<<"+", "7", " ", "(", "9", ")">>),
                Str(<<"a", "7">>)}}

\* a POST /validate that only asks for a JSON object
PostValidateReplyObjectOnly(body) ==
    IF body.t # "object"
    THEN [code |-> 400, valid |-> FALSE, errors |-> ValidationErrors(body)]
    ELSE [code |-> 200, valid |-> TRUE, errors |-> <<>>]

\* the POST /validate handler's answer
PostValidateReply(body) ==
    LET validation == SafeParse(body)
    IN  IF ~validation.success
        THEN [code |-> 400, valid |-> FALSE, errors |-> ValidationErrors(body)]
        ELSE [code |-> 200, valid |-> TRUE, errors |-> <<>>]

(***************************************************************************)
(* State: the pipeline's (clock, storage client, bucket, output directory, *)
(* the requests), and the argument and answer of slugify and of the        *)
(* validate endpoint when these are run on their own.                      *)
(***************************************************************************)
VARIABLES clock, configured, bucket, disk, runs,
          slugIn, slugOut, validateIn, validateOut,
          handlerIn, handlerOut, manualUpload,
          pendingDir, completedDir, watcher, tasks,
          sites, revisions, storage, purge, script, handoff

vars == <<clock, configured, bucket, disk, runs,
          slugIn, slugOut, validateIn, validateOut,
          handlerIn, handlerOut, manualUpload,
          pendingDir, completedDir, watcher, tasks,
          sites, revisions, storage, purge, script, handoff>>

pipelineVars == <<clock, configured, bucket, disk, runs>>
endpointVars == <<handlerIn, handlerOut, manualUpload, handoff>>
watcherVars == <<pendingDir, completedDir, watcher, tasks>>
purgeVars == <<sites, revisions, storage, purge, script>>
toolVars == <<watcherVars, purgeVars>>
otherVars == <<endpointVars, toolVars>>
functionVars == <<slugIn, slugOut, validateIn, validateOut, otherVars>>

Pending == [done |-> FALSE]

PipelineIdle ==
    /\ clock = 0
    /\ bucket = EmptyStore
    /\ disk = EmptyStore
    /\ runs = [r \in Runs |-> IdleRun]

NoRequest == [done |-> FALSE, code |-> 0]

\* no index.html is on its way from a producer to POST /upload
NoHandoff ==
    [pc |-> "idle", producer |-> "", code |-> 0, run_id |-> <<>>,
     business_slug |-> <<>>, output_path |-> <<>>, started |-> 0]

EndpointsIdle ==
    /\ handlerIn = [threw |-> FALSE, result |-> NoResult]
    /\ handlerOut = Pending
    /\ manualUpload = NoRequest
    /\ handoff = NoHandoff

\* the watcher process not started
WatcherIdle ==
    /\ pendingDir = EmptyStore
    /\ completedDir = EmptyStore
    /\ watcher = [phase |-> "off", existing |-> <<>>, events |-> <<>>,
                  started |-> <<>>]
    /\ tasks = [f \in FileNames |-> IdleTask]

\* no script running, nothing in the tables and buckets
PurgeIdle ==
    /\ sites = EmptyStore
    /\ revisions = {}
    /\ storage = [b \in Range(PurgeBuckets) |-> {}]
    /\ purge = NoPurge
    /\ script = NoScript

ToolsIdle == WatcherIdle /\ PurgeIdle

OthersIdle == EndpointsIdle /\ ToolsIdle

FunctionsIdle ==
    /\ slugIn = <<>>
    /\ slugOut = Pending
    /\ validateIn = NullBody
    /\ validateOut = Pending
    /\ OthersIdle

(***************************************************************************)
(* slugify on its own                                                      *)
(***************************************************************************)
SlugInit ==
    /\ PipelineIdle
    /\ configured = TRUE
    /\ slugIn \in SlugInputs
    /\ slugOut = Pending
    /\ validateIn = NullBody
    /\ validateOut = Pending
    /\ OthersIdle

Slugify ==
    /\ ~slugOut.done
    /\ slugOut' = [done |-> TRUE, value |-> slugify(slugIn)]
    /\ UNCHANGED <<pipelineVars, slugIn, validateIn, validateOut, otherVars>>

SlugNext == Slugify

SlugSpec == SlugInit /\ [][SlugNext]_vars

(***************************************************************************)
(* POST /validate on its own                                               *)
(***************************************************************************)
ValidateInit ==
    /\ PipelineIdle
    /\ configured = TRUE
    /\ validateIn \in ValidateBodies
    /\ validateOut = Pending
    /\ slugIn = <<>>
    /\ slugOut = Pending
    /\ OthersIdle

PostValidate ==
    /\ ~validateOut.done
    /\ validateOut' = [done |-> TRUE, reply |-> PostValidateReply(validateIn)]
    /\ UNCHANGED <<pipelineVars, validateIn, slugIn, slugOut, otherVars>>

ValidateNext == PostValidate

ValidateSpec == ValidateInit /\ [][ValidateNext]_vars

(***************************************************************************)
(* The POST /pipeline handler on its own: what it answers for each thing   *)
(* that awaiting runPipeline can give it                                   *)
(***************************************************************************)
HandlerInit ==
    /\ PipelineIdle
    /\ configured = TRUE
    /\ slugIn = <<>>
    /\ slugOut = Pending
    /\ validateIn = NullBody
    /\ validateOut = Pending
    /\ handlerIn \in PipelineOutcomes
    /\ handlerOut = Pending
    /\ manualUpload = NoRequest
    /\ handoff = NoHandoff
    /\ ToolsIdle

PostPipelineHandler ==
    /\ ~handlerOut.done
    /\ handlerOut' = [done |-> TRUE, reply |-> PostPipelineReply(handlerIn)]
    /\ UNCHANGED <<pipelineVars, slugIn, slugOut, validateIn, validateOut,
                   handlerIn, manualUpload, handoff, toolVars>>

HandlerNext == PostPipelineHandler

HandlerSpec == HandlerInit /\ [][HandlerNext]_vars

(***************************************************************************)
(* The pipeline as a state machine: concurrent requests against one clock, *)
(* one bucket and one output directory.                                    *)
(***************************************************************************)
Init ==
    /\ PipelineIdle
    /\ configured \in BOOLEAN
    /\ FunctionsIdle

\* Date.now() advances
Tick ==
    /\ clock < MaxClock
    /\ clock' = clock + 1
    /\ UNCHANGED <<configured, bucket, disk, runs, functionVars>>

\* POST /pipeline?mock=..&skipUpload=..: the handler calls runPipeline with
\* its output directory
PostPipeline(r) ==
    /\ runs[r].pc = "idle"
    /\ \E body \in PipelineBodies, useMock \in BOOLEAN, skipUpload \in BOOLEAN :
          runs' = [runs EXCEPT ![r] =
                      ValidationStage(body, useMock, skipUpload, TRUE, TRUE,
                                      clock)]
    /\ UNCHANGED <<clock, configured, bucket, disk, functionVars>>

\* runPipeline called without an output directory
CallRunPipeline(r) ==
    /\ runs[r].pc = "idle"
    /\ \E body \in PipelineBodies, useMock \in BOOLEAN, skipUpload \in BOOLEAN :
          runs' = [runs EXCEPT ![r] =
                      ValidationStage(body, useMock, skipUpload, FALSE, FALSE,
                                      clock)]
    /\ UNCHANGED <<clock, configured, bucket, disk, functionVars>>

Architect(r) ==
    /\ runs[r].pc = "architect"
    /\ \E reply \in ArchitectReplies :
          runs' = [runs EXCEPT ![r] = ArchitectStage(runs[r], reply, clock)]
    /\ UNCHANGED <<clock, configured, bucket, disk, functionVars>>

Builder(r) ==
    /\ runs[r].pc = "builder"
    /\ \E reply \in BuilderReplies, fsThrows \in BOOLEAN :
          LET out == BuilderStage(runs[r], disk, reply, fsThrows, clock)
          IN  /\ runs' = [runs EXCEPT ![r] = out.run]
              /\ disk' = out.disk
    /\ UNCHANGED <<clock, configured, bucket, functionVars>>

BucketCheck(r) ==
    /\ runs[r].pc = "bucket"
    /\ \E fault \in StorageFaults :
          runs' = [runs EXCEPT ![r] = BucketStage(runs[r], configured, fault)]
    /\ UNCHANGED <<clock, configured, bucket, disk, functionVars>>

Upload(r) ==
    /\ runs[r].pc = "upload"
    /\ \E fault \in StorageFaults :
          LET out == UploadStage(runs[r], bucket, configured, fault, clock)
          IN  /\ runs' = [runs EXCEPT ![r] = out.run]
              /\ bucket' = out.store
    /\ UNCHANGED <<clock, configured, disk, functionVars>>

Next ==
    \/ Tick
    \/ \E r \in Runs : PostPipeline(r)
    \/ \E r \in Runs : CallRunPipeline(r)
    \/ \E r \in Runs : Architect(r)
    \/ \E r \in Runs : Builder(r)
    \/ \E r \in Runs : BucketCheck(r)
    \/ \E r \in Runs : Upload(r)

Spec == Init /\ [][Next]_vars

\* One request followed to its end: the steps of a single run, where each
\* external call (architect, builder with the local save, bucket check,
\* upload) eventually returns or throws
OneRun == CHOOSE r \in Runs : TRUE

OneRunNext ==
    \/ Tick
    \/ PostPipeline(OneRun)
    \/ CallRunPipeline(OneRun)
    \/ Architect(OneRun)
    \/ Builder(OneRun)
    \/ BucketCheck(OneRun)
    \/ Upload(OneRun)

CallsReturn ==
    /\ WF_vars(Architect(OneRun))
    /\ WF_vars(Builder(OneRun))
    /\ WF_vars(BucketCheck(OneRun))
    /\ WF_vars(Upload(OneRun))

OneRunSpec == Init /\ [][OneRunNext]_vars /\ CallsReturn

(***************************************************************************)
(* POST /upload: requests served one after the other against the output    *)
(* directory and the bucket                                                *)
(***************************************************************************)
UploadInit ==
    /\ clock = 0
    /\ configured \in BOOLEAN
    /\ bucket = EmptyStore
    /\ disk \in SavedFiles
    /\ runs = [r \in Runs |-> IdleRun]
    /\ slugIn = <<>>
    /\ slugOut = Pending
    /\ validateIn = NullBody
    /\ validateOut = Pending
    /\ handlerIn = [threw |-> FALSE, result |-> NoResult]
    /\ handlerOut = Pending
    /\ manualUpload = NoRequest
    /\ handoff = NoHandoff
    /\ ToolsIdle

PostUpload ==
    \E runId \in UploadRunIds, slug \in UploadSlugs, fsThrows \in BOOLEAN,
       fault \in StorageFaults :
        LET out == PostUploadReply(disk, bucket, configured, runId, slug,
                                   fsThrows, fault, clock)
        IN  /\ manualUpload' =
                  [done |-> TRUE, runId |-> runId, slug |-> slug,
                   code |-> out.code, body |-> out.body, calls |-> out.calls,
                   declared |-> out.declared, threw |-> out.threw]
            /\ bucket' = out.store
            /\ UNCHANGED <<clock, configured, disk, runs, slugIn, slugOut,
                           validateIn, validateOut, handlerIn, handlerOut,
                           handoff, toolVars>>

UploadNext == Tick \/ PostUpload

UploadSpec == UploadInit /\ [][UploadNext]_vars

(***************************************************************************)
(* The hand-over of index.html: POST /pipeline?skipUpload=true saves it, or *)
(* POST /architect names its place and the builder outside the server      *)
(* saves it there; POST /upload is then called with the run_id and the     *)
(* business_slug of the producer's answer.                                 *)
(***************************************************************************)
HandoffInit ==
    /\ clock = 0
    /\ configured \in BOOLEAN
    /\ bucket = EmptyStore
    /\ disk = EmptyStore
    /\ runs = [r \in Runs |-> IdleRun]
    /\ slugIn = <<>>
    /\ slugOut = Pending
    /\ validateIn = NullBody
    /\ validateOut = Pending
    /\ EndpointsIdle
    /\ ToolsIdle

handoffFrame ==
    <<clock, configured, runs, slugIn, slugOut, validateIn, validateOut,
      handlerIn, handlerOut, toolVars>>

MayProduce ==
    /\ handoff.pc \in {"idle", "failed", "uploaded"}
    /\ handoff.started < MaxHandoffs

\* the answer of a producer as the client keeps it
Produced(producer, reply, file) ==
    IF reply.code # 200
    THEN [NoHandoff EXCEPT !.pc = "failed", !.producer = producer,
                           !.code = reply.code,
                           !.started = handoff.started + 1]
    ELSE [pc |-> IF producer = "pipeline" THEN "saved" ELSE "pending",
          producer |-> producer, code |-> reply.code,
          run_id |-> reply.body.run_id,
          business_slug |-> reply.body.business_slug,
          output_path |-> file, started |-> handoff.started + 1]

\* POST /pipeline?skipUpload=true from the request to the answer
PipelineSkipUpload ==
    /\ MayProduce
    /\ \E body \in HandoffBodies, useMock \in BOOLEAN,
          architect \in ArchitectReplies, builder \in BuilderReplies,
          fsThrows \in BOOLEAN :
          LET v == ValidationStage(body, useMock, TRUE, TRUE, TRUE, clock)
              a == IF v.pc = "architect"
                   THEN ArchitectStage(v, architect, clock) ELSE v
              b == IF a.pc = "builder"
                   THEN BuilderStage(a, disk, builder, fsThrows, clock)
                   ELSE [run |-> a, disk |-> disk]
          IN  /\ handoff' = Produced("pipeline", b.run.reply,
                                     LocalHtmlPath(b.run.slug, b.run.runId))
              /\ disk' = b.disk
    /\ UNCHANGED <<handoffFrame, bucket, manualUpload>>

\* POST /architect from the request to the answer
PostArchitect ==
    /\ MayProduce
    /\ \E body \in HandoffBodies, useMock \in BOOLEAN,
          architect \in ArchitectReplies, fsThrows \in BOOLEAN :
          LET out == PostArchitectReply(disk, body, useMock, architect,
                                        fsThrows, clock)
          IN  /\ handoff' = Produced("architect", out,
                                     IF out.code = 200
                                     THEN Resolve(out.body.output_path)
                                     ELSE <<>>)
              /\ disk' = out.files
    /\ UNCHANGED <<handoffFrame, bucket, manualUpload>>

\* the builder outside the server saves its page at the output_path
SaveIndexHtml ==
    /\ handoff.pc = "pending"
    /\ \E html \in HandoffPages :
          disk' = Put(disk, handoff.output_path, html)
    /\ handoff' = [handoff EXCEPT !.pc = "saved"]
    /\ UNCHANGED <<handoffFrame, bucket, manualUpload>>

\* POST /upload?runId={run_id}&slug={business_slug}
UploadReturned ==
    /\ handoff.pc = "saved"
    /\ \E fsThrows \in BOOLEAN, fault \in StorageFaults :
          LET out == PostUploadReply(disk, bucket, configured, handoff.run_id,
                                     handoff.business_slug, fsThrows, fault,
                                     clock)
          IN  /\ manualUpload' =
                    [done |-> TRUE, runId |-> handoff.run_id,
                     slug |-> handoff.business_slug,
                     code |-> out.code, body |-> out.body,
                     calls |-> out.calls, declared |-> out.declared,
                     threw |-> out.threw]
              /\ bucket' = out.store
    /\ handoff' = [handoff EXCEPT !.pc = "uploaded"]
    /\ UNCHANGED <<handoffFrame, disk>>

HandoffNext ==
    \/ Tick
    \/ PipelineSkipUpload
    \/ PostArchitect
    \/ SaveIndexHtml
    \/ UploadReturned

HandoffSpec == HandoffInit /\ [][HandoffNext]_vars

(***************************************************************************)
(* The watcher process: the start-up pass over the files already in the    *)
(* pending directory, then one "add" event per file created, each handled  *)
(* by an async listener.  A step is what the process does between two      *)
(* awaits.                                                                 *)
(***************************************************************************)
\* the process just after readdirSync, with both keys configured
WatcherInit ==
    /\ PipelineIdle
    /\ configured = TRUE
    /\ slugIn = <<>>
    /\ slugOut = Pending
    /\ validateIn = NullBody
    /\ validateOut = Pending
    /\ EndpointsIdle
    /\ pendingDir \in PendingDirs
    /\ completedDir = EmptyStore
    /\ watcher = [phase |-> "startup", existing |-> ReaddirMd(pendingDir),
                  events |-> <<>>, started |-> <<>>]
    /\ tasks = [f \in FileNames |-> IdleTask]
    /\ PurgeIdle

InFlight(f) == tasks[f].pc \in {"generating", "uploading"}

\* the call processTask(filePath), up to its first await
CallProcessTask(filePath) ==
    tasks' = [tasks EXCEPT ![filePath] = processTaskStart(pendingDir, filePath)]

\* another process writes a file into the pending directory; the running
\* watch reports it with an "add" event (ignoreInitial: what is there when
\* the watch starts is not reported)
CreateFile ==
    /\ \E f \in FileNames, content \in TaskContents :
          /\ f \notin DOMAIN pendingDir
          /\ f \notin DOMAIN completedDir
          /\ pendingDir' = Put(pendingDir, f, content)
          /\ watcher' = IF watcher.phase = "watching"
                        THEN [watcher EXCEPT !.events = Append(@, f)]
                        ELSE watcher
    /\ UNCHANGED <<pipelineVars, slugIn, slugOut, validateIn, validateOut,
                   endpointVars, completedDir, tasks, purgeVars>>

\* for (const file of existingFiles) await processTask(file): the next file
\* is taken when the await of the one before has resolved
StartupTask ==
    /\ watcher.phase = "startup"
    /\ watcher.existing # <<>>
    /\ \A f \in FileNames : ~InFlight(f)
    /\ CallProcessTask(Head(watcher.existing))
    /\ watcher' = [watcher EXCEPT !.existing = Tail(@),
                                  !.started = Append(@, Head(watcher.existing))]
    /\ UNCHANGED <<pipelineVars, slugIn, slugOut, validateIn, validateOut,
                   endpointVars, pendingDir, completedDir, purgeVars>>

\* chokidar.watch(PENDING_DIR, ..) and the registration of the listeners
StartWatching ==
    /\ watcher.phase = "startup"
    /\ watcher.existing = <<>>
    /\ \A f \in FileNames : ~InFlight(f)
    /\ watcher' = [watcher EXCEPT !.phase = "watching"]
    /\ UNCHANGED <<pipelineVars, slugIn, slugOut, validateIn, validateOut,
                   endpointVars, pendingDir, completedDir, tasks, purgeVars>>

\* watcher.on("add", async (filePath) => ..): the emitter calls the listener
\* for the next event; the listener runs up to the first await of
\* processTask and returns its promise, which the emitter drops
OnAdd ==
    /\ watcher.phase = "watching"
    /\ watcher.events # <<>>
    /\ LET filePath == Head(watcher.events)
       IN  IF EndsWithMd(filePath)
           THEN /\ CallProcessTask(filePath)
                /\ watcher' = [watcher EXCEPT !.events = Tail(@),
                                              !.started = Append(@, filePath)]
           ELSE /\ tasks' = tasks
                /\ watcher' = [watcher EXCEPT !.events = Tail(@)]
    /\ UNCHANGED <<pipelineVars, slugIn, slugOut, validateIn, validateOut,
                   endpointVars, pendingDir, completedDir, purgeVars>>

\* await runBuilder(prompt) resolves or rejects; the markup is saved
TaskGenerated(f) ==
    /\ tasks[f].pc = "generating"
    /\ \E reply \in BuilderReplies, fsThrows \in BOOLEAN :
          LET out == processTaskSave(disk, f, reply, fsThrows)
          IN  /\ tasks' = [tasks EXCEPT ![f] = out.task]
              /\ disk' = out.files
    /\ UNCHANGED <<clock, configured, bucket, runs, slugIn, slugOut,
                   validateIn, validateOut, endpointVars, pendingDir,
                   completedDir, watcher, purgeVars>>

\* await supabase.storage..upload(..) resolves or rejects; the task file is
\* moved
TaskUploaded(f) ==
    /\ tasks[f].pc = "uploading"
    /\ \E fault \in StorageFaults, renameThrows \in BOOLEAN :
          LET out == processTaskFinish(tasks[f], bucket, pendingDir,
                                       completedDir, f, fault, renameThrows)
          IN  /\ tasks' = [tasks EXCEPT ![f] = out.task]
              /\ bucket' = out.store
              /\ pendingDir' = out.dir
              /\ completedDir' = out.done
    /\ UNCHANGED <<clock, configured, disk, runs, slugIn, slugOut,
                   validateIn, validateOut, endpointVars, watcher,
                   purgeVars>>

WatcherNext ==
    \/ CreateFile
    \/ StartupTask
    \/ StartWatching
    \/ OnAdd
    \/ \E f \in FileNames : TaskGenerated(f)
    \/ \E f \in FileNames : TaskUploaded(f)

WatcherSpec == WatcherInit /\ [][WatcherNext]_vars

\* the watcher process keeps running: the start-up loop goes on, the watch
\* is started, the emitter delivers its events, and every await of
\* processTask resolves or rejects
WatcherRuns ==
    /\ WF_vars(StartupTask)
    /\ WF_vars(StartWatching)
    /\ WF_vars(OnAdd)
    /\ \A f \in FileNames : WF_vars(TaskGenerated(f))
    /\ \A f \in FileNames : WF_vars(TaskUploaded(f))

FairWatcherSpec == WatcherSpec /\ WatcherRuns

(***************************************************************************)
(* One execution of the purge script against the tables and the buckets.   *)
(* A step is what the script does between two awaits of main.              *)
(***************************************************************************)
PurgeInit ==
    /\ PipelineIdle
    /\ configured \in BOOLEAN
    /\ slugIn = <<>>
    /\ slugOut = Pending
    /\ validateIn = NullBody
    /\ validateOut = Pending
    /\ EndpointsIdle
    /\ WatcherIdle
    /\ \E db \in Databases :
          /\ sites = db.rows
          /\ revisions = db.revs
          /\ storage = db.store
    /\ purge = NoPurge
    /\ script = NoScript

nonPurgeVars ==
    <<pipelineVars, slugIn, slugOut, validateIn, validateOut, endpointVars,
      watcherVars, script>>

\* the script is started with its flags
RunPurge ==
    /\ purge.pc = "off"
    /\ \E argv \in PurgeArgs : purge' = PurgeStart(argv)
    /\ UNCHANGED <<nonPurgeVars, sites, revisions, storage>>

GatherSites ==
    /\ purge.pc = "gather"
    /\ \E fails \in BOOLEAN :
          purge' = PurgeGather(purge, sites, configured, fails)
    /\ UNCHANGED <<nonPurgeVars, sites, revisions, storage>>

ListFiles ==
    /\ purge.pc = "list"
    /\ \E failing \in SUBSET Range(PurgeBuckets) :
          purge' = PurgeList(purge, storage, failing)
    /\ UNCHANGED <<nonPurgeVars, sites, revisions, storage>>

DeleteFiles ==
    /\ purge.pc = "delete-files"
    /\ \E failing \in SUBSET Range(PurgeBuckets) :
          /\ storage' = DeleteAll(storage, purge.allFilesToDelete, failing)
          /\ purge' = [purge EXCEPT !.pc = "delete-rows",
                                    !.failed = @ \/ failing # {}]
    /\ UNCHANGED <<nonPurgeVars, sites, revisions>>

DeleteRows ==
    /\ purge.pc = "delete-rows"
    /\ \E listFails \in BOOLEAN, revFails \in BOOLEAN, siteFails \in BOOLEAN :
          LET result == PurgeDeleteRows(purge,
                                        [rows |-> sites, revs |-> revisions],
                                        listFails, revFails, siteFails)
          IN  /\ sites' = result.db.rows
              /\ revisions' = result.db.revs
              /\ purge' = Exit([purge EXCEPT
                                   !.failed = @ \/ listFails \/ revFails
                                                \/ siteFails,
                                   !.rows = [called |-> TRUE,
                                             success |-> result.success]],
                               0)
    /\ UNCHANGED <<nonPurgeVars, storage>>

PurgeNext ==
    \/ RunPurge
    \/ GatherSites
    \/ ListFiles
    \/ DeleteFiles
    \/ DeleteRows

PurgeSpec == PurgeInit /\ [][PurgeNext]_vars

(***************************************************************************)
(* The three scripts run one after the other against the tables and the    *)
(* buckets: import and override executions, then one purge.  A step is     *)
(* what a script does between two awaits of main.                          *)
(***************************************************************************)
ScriptsInit ==
    /\ PipelineIdle
    /\ configured \in BOOLEAN
    /\ slugIn = <<>>
    /\ slugOut = Pending
    /\ validateIn = NullBody
    /\ validateOut = Pending
    /\ EndpointsIdle
    /\ WatcherIdle
    /\ PurgeIdle

nonScriptVars ==
    <<pipelineVars, slugIn, slugOut, validateIn, validateOut, endpointVars,
      watcherVars, purge>>

\* no script is running and the purge has not been started
MayLaunch ==
    /\ purge.pc = "off"
    /\ script.pc \in {"off", "exit"}
    /\ script.launched < MaxScripts

RunImport ==
    /\ MayLaunch
    /\ \E argv \in ImportArgs :
          script' = [ImportStart(argv) EXCEPT
                        !.launched = script.launched + 1]
    /\ UNCHANGED <<nonScriptVars, sites, revisions, storage>>

ImportSite ==
    /\ script.kind = "import"
    /\ script.pc = "upsert"
    /\ script.argv.siteId = "" => FreeSiteIds(sites) # {}
    /\ \E fails \in BOOLEAN :
          LET step == ImportUpsert(script, sites, configured, fails)
          IN  /\ script' = step.proc
              /\ sites' = step.rows
    /\ UNCHANGED <<nonScriptVars, revisions, storage>>

ImportPage ==
    /\ script.kind = "import"
    /\ script.pc = "upload"
    /\ \E fails \in BOOLEAN :
          LET step == ImportUpload(script, storage, fails)
          IN  /\ script' = step.proc
              /\ storage' = step.store
    /\ UNCHANGED <<nonScriptVars, sites, revisions>>

RunOverride ==
    /\ MayLaunch
    /\ \E argv \in OverrideArgs :
          script' = [OverrideStart(argv) EXCEPT
                        !.launched = script.launched + 1]
    /\ UNCHANGED <<nonScriptVars, sites, revisions, storage>>

VerifyOwner ==
    /\ script.kind = "override"
    /\ script.pc = "verify"
    /\ \E fails \in BOOLEAN :
          script' = OverrideVerify(script, sites, configured, fails)
    /\ UNCHANGED <<nonScriptVars, sites, revisions, storage>>

UpdateSite ==
    /\ script.pc = "update"
    /\ \E fails \in BOOLEAN :
          LET step == OverrideUpdate(script, sites, fails)
          IN  /\ script' = step.proc
              /\ sites' = step.rows
    /\ UNCHANGED <<nonScriptVars, revisions, storage>>

UploadPublished ==
    /\ script.pc = "upload-published"
    /\ \E fails \in BOOLEAN :
          LET step == OverrideUploadPublished(script, storage, fails)
          IN  /\ script' = step.proc
              /\ storage' = step.store
    /\ UNCHANGED <<nonScriptVars, sites, revisions>>

CreateRevision ==
    /\ script.pc = "revision"
    /\ \E fails \in BOOLEAN :
          LET step == OverrideRevision(script,
                                       [rows |-> sites, revs |-> revisions],
                                       fails)
          IN  /\ script' = step.proc
              /\ revisions' = step.revs
    /\ UNCHANGED <<nonScriptVars, sites, storage>>

UploadSnapshot ==
    /\ script.pc = "upload-snapshot"
    /\ \E fails \in BOOLEAN :
          LET step == OverrideUploadSnapshot(script, storage, clock, fails)
          IN  /\ script' = step.proc
              /\ storage' = step.store
    /\ UNCHANGED <<nonScriptVars, sites, revisions>>

\* the purge is started, with --execute, when no other script is running
RunPurgeAfterwards ==
    /\ script.pc \in {"off", "exit"}
    /\ purge.pc = "off"
    /\ \E argv \in {a \in PurgeArgs : a.execute /\ ~a.dryRun} :
          purge' = PurgeStart(argv)
    /\ UNCHANGED <<nonPurgeVars, sites, revisions, storage>>

ScriptsNext ==
    \/ Tick
    \/ RunImport
    \/ ImportSite
    \/ ImportPage
    \/ RunOverride
    \/ VerifyOwner
    \/ UpdateSite
    \/ UploadPublished
    \/ CreateRevision
    \/ UploadSnapshot
    \/ RunPurgeAfterwards
    \/ GatherSites
    \/ ListFiles
    \/ DeleteFiles
    \/ DeleteRows

ScriptsSpec == ScriptsInit /\ [][ScriptsNext]_vars

(***************************************************************************)
(* Properties                                                              *)
(***************************************************************************)
Has(rec, field) == field \in DOMAIN rec

PhaseOf(result) ==
    IF Has(result, "error_phase") THEN result.error_phase ELSE "none"

Started(r) == runs[r].pc # "idle"
Returned(r) == runs[r].pc = "done"
Called(r, stage) == stage \in Range(runs[r].log)

IsPrefix(s, t) == Len(s) <= Len(t) /\ s = SubSeq(t, 1, Len(s))

IsStage(e) == e # "write"

\* the calls of a run without the local save, which belongs to the
\* generate-content stage
StageLog(r) == SelectSeq(runs[r].log, IsStage)

StageOrder == <<"validate", "architect", "builder", "bucket", "upload">>

\* C1: a run whose input fails schema validation has returned an error
\* record tagged "validation", and has called neither generator, made
\* neither storage call and written no local file.
C1_InvalidInputStopsAtValidation ==
    \A r \in Runs :
        (Started(r) /\ ~SafeParse(runs[r].body).success) =>
            /\ Returned(r)
            /\ runs[r].result.status = "error"
            /\ PhaseOf(runs[r].result) = "validation"
            /\ runs[r].log = <<"validate">>
            /\ \A p \in DOMAIN disk :
                  \E q \in Runs :
                      /\ q # r
                      /\ Called(q, "write")
                      /\ p = LocalHtmlPath(runs[q].slug, runs[q].runId)

C1_Witness ==
    \E r \in Runs :
        /\ Returned(r)
        /\ ~SafeParse(runs[r].body).success
        /\ PhaseOf(runs[r].result) = "validation"
        /\ runs[r].viaHttp

\* C2: the calls of a run follow the order validate, architect, builder,
\* upload with none repeated; the builder is called only in a run whose
\* architect stage succeeded and the storage calls only in a run whose
\* builder stage succeeded.
C2_StagesInOrder ==
    \A r \in Runs :
        /\ IsPrefix(StageLog(r), StageOrder)
        /\ Called(r, "architect") => "validate" \in runs[r].completed
        /\ Called(r, "builder") =>
              /\ "architect" \in runs[r].completed
              /\ runs[r].spec.prompt.t = "string"
        /\ (Called(r, "bucket") \/ Called(r, "upload")) =>
              "builder" \in runs[r].completed

C2_Witness ==
    \E r \in Runs :
        /\ Returned(r)
        /\ StageLog(r) = StageOrder
        /\ runs[r].result.status = "success"

\* C3: when the architect call throws, the run returns an error tagged
\* "architect" and neither the builder nor the uploader is called; when the
\* builder call throws, the error is tagged "builder" and the uploader is not
\* called; the error message carries the message of the exception.
C3_AgentFailureTagged ==
    \A r \in Runs :
        /\ runs[r].thrown.site = "architect" =>
              /\ Returned(r)
              /\ runs[r].result.status = "error"
              /\ PhaseOf(runs[r].result) = "architect"
              /\ ~Called(r, "builder") /\ ~Called(r, "write")
              /\ ~Called(r, "bucket") /\ ~Called(r, "upload")
              /\ runs[r].thrown.message \in Range(runs[r].result.error_message)
        /\ runs[r].thrown.site = "builder" =>
              /\ Returned(r)
              /\ runs[r].result.status = "error"
              /\ PhaseOf(runs[r].result) = "builder"
              /\ ~Called(r, "bucket") /\ ~Called(r, "upload")
              /\ runs[r].thrown.message \in Range(runs[r].result.error_message)

C3_Witness ==
    \E r, q \in Runs :
        /\ runs[r].thrown.site = "architect"
        /\ runs[r].thrown.message = "GEMINI_API_KEY is not configured"
        /\ runs[q].thrown.site = "builder"
        /\ runs[q].thrown.message = "503 Service Unavailable"

\* the keys the documentation lists as required
RequiredFields ==
    {"business_name", "address", "city", "state", "business_category",
     "description"}

AbsentRequired(body) == {f \in RequiredFields : body.f[f] = Undefined}

\* C4: a record in which a required field (name, address, city, state,
\* category, description) is absent fails validation, and the error list is
\* not empty and has an entry naming each absent required field.
C4_AbsentRequiredFieldsNamed ==
    (validateOut.done /\ validateIn.t = "object"
        /\ AbsentRequired(validateIn) # {}) =>
            /\ ~validateOut.reply.valid
            /\ validateOut.reply.errors # <<>>
            /\ \A f \in AbsentRequired(validateIn) :
                  \E i \in 1..Len(validateOut.reply.errors) :
                      validateOut.reply.errors[i].field = f

\* C5: the slug of every text is lower case, has only characters of
\* [a-z0-9-], neither begins nor ends with a hyphen and has at most 50
\* characters.
C5_SlugWellFormed ==
    slugOut.done =>
        /\ \A i \in 1..Len(slugOut.value) : slugOut.value[i] \in SlugChars
        /\ slugOut.value # <<>> =>
              /\ Head(slugOut.value) # "-"
              /\ slugOut.value[Len(slugOut.value)] # "-"
        /\ Len(slugOut.value) <= SlugMaxLen

\* C6: two runs of the full pipeline with the same input and upload enabled
\* compute different storage paths, whatever the clock read at each upload.
C6_DistinctStoragePaths ==
    \A r, q \in Runs :
        (/\ r # q
         /\ runs[r].body = runs[q].body
         /\ runs[r].uploadPath # <<>>
         /\ runs[q].uploadPath # <<>>) =>
            runs[r].uploadPath # runs[q].uploadPath

\* the step in which run r calls uploadWebsite
UploadStep(r) == runs[r].pc = "upload" /\ runs'[r].pc = "done"

\* C7: no step replaces or removes a stored object, and an upload whose
\* computed path already holds an object leaves the bucket as it was and
\* returns success = false with the message of the storage call.
C7_UploadNeverReplaces ==
    [][/\ \A p \in DOMAIN bucket :
             p \in DOMAIN bucket' /\ bucket'[p] = bucket[p]
       /\ \A r \in Runs :
             (/\ UploadStep(r)
              /\ configured
              /\ StoragePath(runs[r].slug, clock) \in DOMAIN bucket) =>
                 /\ bucket' = bucket
                 /\ ~runs'[r].upload.success
                 /\ runs'[r].upload.error \in
                       {"The resource already exists", "fetch failed"}
                 /\ runs'[r].upload.storagePath =
                       StoragePath(runs[r].slug, clock)]_vars

C7_Witness ==
    \E r, q \in Runs :
        /\ Returned(r)
        /\ ~runs[r].upload.success
        /\ runs[r].upload.error = "The resource already exists"
        /\ runs[r].uploadPath \in DOMAIN bucket
        /\ r # q
        /\ runs[q].result.status = "success"
        /\ runs[q].uploadPath = runs[r].uploadPath
        /\ runs[q].html # runs[r].html
        /\ bucket[runs[r].uploadPath] = runs[q].html

\* C8: a run with a valid record, the mock generators and skipUpload returns
\* a success record whose html_size_bytes is the UTF-8 length of the mock
\* builder's text.
C8_MockSkipUploadSucceeds ==
    \A r \in Runs :
        (/\ Returned(r)
         /\ SafeParse(runs[r].body).success
         /\ runs[r].useMock
         /\ runs[r].skipUpload) =>
            /\ runs[r].result.status = "success"
            /\ Has(runs[r].result, "html_size_bytes")
            /\ runs[r].result.html_size_bytes =
                  ByteLength(mockBuilder(mockArchitect(runs[r].body.f)))

\* C9: a successful run with skipUpload made neither the bucket check nor the
\* upload, and its record has business_slug and html_size_bytes and neither
\* public_url nor storage_path.
C9_SkipUploadMakesNoStorageCall ==
    \A r \in Runs :
        (/\ Returned(r)
         /\ runs[r].skipUpload
         /\ runs[r].result.status = "success") =>
            /\ ~Called(r, "bucket")
            /\ ~Called(r, "upload")
            /\ runs[r].upload = NoUpload
            /\ \A p \in DOMAIN bucket :
                  \E q \in Runs : q # r /\ runs[q].uploadPath = p
            /\ Has(runs[r].result, "business_slug")
            /\ runs[r].result.business_slug = runs[r].slug
            /\ Has(runs[r].result, "html_size_bytes")
            /\ runs[r].result.html_size_bytes = ByteLength(runs[r].html)
            /\ ~Has(runs[r].result, "public_url")
            /\ ~Has(runs[r].result, "storage_path")

C9_Witness ==
    \E r \in Runs :
        /\ Returned(r)
        /\ runs[r].skipUpload
        /\ runs[r].result.status = "success"
        /\ ~runs[r].useMock
        /\ runs[r].result.html_size_bytes > Len(runs[r].html)

StorageMessages ==
    {"The resource already exists", "Bucket not found", "fetch failed"}

\* C10: when the storage call of the upload stage throws or reports an
\* error, the run returns an error record tagged "upload" whose message
\* carries the storage call's message, and the POST /pipeline handler
\* answers 400 with that record as body.
C10_UploadFailureIs400 ==
    \A r \in Runs :
        (/\ Returned(r)
         /\ Called(r, "upload")
         /\ configured
         /\ ~runs[r].upload.success) =>
            /\ runs[r].result.status = "error"
            /\ PhaseOf(runs[r].result) = "upload"
            /\ runs[r].upload.error \in StorageMessages
            /\ runs[r].upload.error \in Range(runs[r].result.error_message)
            /\ runs[r].viaHttp =>
                  /\ runs[r].reply.code = 400
                  /\ runs[r].reply.body = runs[r].result

C10_Witness ==
    \E r, q \in Runs :
        /\ Returned(r) /\ Returned(q)
        /\ runs[r].viaHttp /\ runs[q].viaHttp
        /\ ~runs[r].upload.success /\ ~runs[q].upload.success
        /\ runs[r].upload.error = "fetch failed"
        /\ runs[q].upload.error = "Bucket not found"
        /\ runs[r].reply.code = 400
        /\ runs[q].reply.code = 400

ErrorPhases == {"validation", "architect", "builder", "upload"}

\* C11: the POST /pipeline handler answers 200 exactly when runPipeline
\* returned a success record, 400 exactly when it returned an error record
\* (whose phase is one of the four), and 500 with error_phase "unknown"
\* exactly when an exception escaped; the 200 and 400 bodies are the
\* returned record itself.
C11_HandlerStatusCodes ==
    handlerOut.done =>
        LET reply == handlerOut.reply
        IN  /\ reply.code \in {200, 400, 500}
            /\ reply.code = 200 <=>
                  (~handlerIn.threw /\ handlerIn.result.status = "success")
            /\ reply.code = 400 <=>
                  (~handlerIn.threw /\ handlerIn.result.status = "error")
            /\ reply.code = 500 <=> handlerIn.threw
            /\ reply.code = 500 =>
                  /\ reply.body.status = "error"
                  /\ reply.body.error_phase = "unknown"
            /\ reply.code = 400 =>
                  /\ reply.body = handlerIn.result
                  /\ reply.body.error_phase \in ErrorPhases
                  /\ Has(reply.body, "run_id")
            /\ reply.code = 200 => reply.body = handlerIn.result

C11_Witness ==
    /\ handlerOut.done
    /\ handlerIn.threw
    /\ handlerOut.reply.code = 500
    /\ handlerOut.reply.body.error_phase = "unknown"

\* C12: a POST /upload with a runId and a slug whose file is not in the
\* output directory is answered 404 with expected_path
\* output/{slug}/{runId}/index.html, makes no storage call and leaves the
\* bucket as it was.
C12_MissingFileIs404 ==
    [][(/\ manualUpload'.done
        /\ manualUpload'.runId # <<>>
        /\ manualUpload'.slug # <<>>
        /\ PathJoin(<<OUTPUT_DIR, manualUpload'.slug, manualUpload'.runId,
                      <<"index.html">>>>) \notin DOMAIN disk) =>
            /\ manualUpload'.code = 404
            /\ manualUpload'.body.expected_path =
                  <<"output", "/">> \o manualUpload'.slug \o <<"/">>
                      \o manualUpload'.runId \o <<"/", "index.html">>
            /\ manualUpload'.calls = 0
            /\ bucket' = bucket]_vars

C12_Witness ==
    /\ manualUpload.done
    /\ manualUpload.code = 404
    /\ manualUpload.slug = <<"b", "7">>
    /\ manualUpload.runId = <<"run-", "1">>
    /\ DOMAIN disk # {}
    /\ DOMAIN bucket # {}

\* C13: a failure that uploadWebsite declares by returning success = false is
\* answered 400 by POST /upload, and 500 only answers a caught exception.
C13_DeclaredFailureIs400 ==
    manualUpload.done =>
        /\ manualUpload.declared => manualUpload.code = 400
        /\ manualUpload.code = 500 => manualUpload.threw

\* the number of times a call appears in a run's log
Count(log, call) == Cardinality({i \in 1..Len(log) : log[i] = call})

\* C14: in one run the architect, the builder, the bucket check and the
\* upload are each called at most once, and a run in which a call failed has
\* returned with that call as its last one.
C14_EachCallAtMostOnce ==
    \A r \in Runs :
        /\ \A call \in {"architect", "builder", "write", "bucket", "upload"} :
              Count(runs[r].log, call) <= 1
        /\ runs[r].thrown.site # "none" =>
              /\ Returned(r)
              /\ runs[r].result.status = "error"
              /\ runs[r].log[Len(runs[r].log)] =
                    CASE runs[r].thrown.site = "architect" -> "architect"
                      [] runs[r].thrown.site = "architect-log" -> "architect"
                      [] runs[r].thrown.site = "builder" -> "builder"
                      [] runs[r].thrown.site = "fs" -> "write"
                      [] runs[r].thrown.site = "storage" -> "upload"

C14_Witness ==
    \E r, q \in Runs :
        /\ Returned(r) /\ Returned(q)
        /\ runs[r].thrown.site = "storage"
        /\ runs[r].thrown.message = "fetch failed"
        /\ Count(runs[r].log, "architect") = 1
        /\ Count(runs[r].log, "builder") = 1
        /\ Count(runs[r].log, "upload") = 1
        /\ runs[q].thrown.site = "architect"
        /\ Count(runs[q].log, "architect") = 1

SaveStep(r) ==
    /\ runs[r].pc = "builder"
    /\ runs'[r].pc # "builder"
    /\ Count(runs'[r].log, "write") = 1
    /\ runs'[r].thrown.site = "none"

\* C16: the only step of a run that changes the output directory is the one
\* in which its builder returned and outputDir is set, and that step writes
\* the builder's markup to {outputDir}/{slug}/{runId}/index.html and nothing
\* else; no step removes a file, and no later step of the run (the bucket
\* check, the upload, a failed upload) changes the output directory.
C16_LocalFileWrittenOnceAndKept ==
    [][/\ \A p \in DOMAIN disk : p \in DOMAIN disk'
       /\ \A r \in Runs :
             runs'[r] # runs[r] =>
                 IF SaveStep(r)
                 THEN /\ runs[r].outputDir
                      /\ "builder" \in runs'[r].completed
                      /\ runs'[r].html =
                            IF runs[r].useMock THEN mockBuilder(runs[r].spec)
                            ELSE <<"a", "U+20AC">>
                      /\ disk' = Put(disk,
                                     PathJoin(<<OUTPUT_DIR, runs[r].slug,
                                                runs[r].runId,
                                                <<"index.html">>>>),
                                     runs'[r].html)
                 ELSE disk' = disk]_vars

C16_Witness ==
    \E r \in Runs :
        /\ Returned(r)
        /\ runs[r].outputDir
        /\ ~runs[r].useMock
        /\ PhaseOf(runs[r].result) = "upload"
        /\ LocalHtmlPath(runs[r].slug, runs[r].runId) \in DOMAIN disk
        /\ disk[LocalHtmlPath(runs[r].slug, runs[r].runId)] = runs[r].html
        /\ runs[r].html = <<"a", "U+20AC">>

\* C17: a run whose builder returned and whose local save (mkdirSync or
\* writeFileSync) threw is not turned into an error: it goes on to the upload
\* stage, or returns success when skipUpload is set.
C17_LocalWriteBestEffort ==
    \A r \in Runs :
        (Called(r, "write") /\ runs[r].thrown.site = "fs") =>
            /\ PhaseOf(runs[r].result) # "builder"
            /\ runs[r].pc \in {"bucket", "upload", "done"}
            /\ (Returned(r) /\ runs[r].skipUpload) =>
                  runs[r].result.status = "success"

\* C18: two runs, whatever the clock read when each started, have different
\* run identifiers, and so different local paths even for the same business.
C18_RunIdsUnique ==
    \A r, q \in Runs :
        (r # q /\ Started(r) /\ Started(q)) =>
            /\ runs[r].runId # runs[q].runId
            /\ runs[r].slug = runs[q].slug =>
                  LocalHtmlPath(runs[r].slug, runs[r].runId) #
                      LocalHtmlPath(runs[q].slug, runs[q].runId)

\* the files whose processTask has started and not finished
Executing == {f \in FileNames : InFlight(f)}

\* C19: at most one processTask execution is between its start and its end
\* at any time, so a file reported later is not started before the
\* executions for the files reported earlier have finished.
C19_OneTaskAtATime == Cardinality(Executing) <= 1

\* C20: unless the purge script was started with --execute and without
\* --dry-run, no step of it changes the sites table, the revisions table or
\* a bucket, and it never enters its deletion steps.
C20_PurgeDeletesOnlyOnExecute ==
    [][(/\ purge'.pc # "off"
        /\ ~(purge'.argv.execute /\ ~purge'.argv.dryRun)) =>
            /\ sites' = sites
            /\ revisions' = revisions
            /\ storage' = storage
            /\ purge'.pc \notin {"delete-files", "delete-rows"}]_vars

\* the site of --site-id exists and its owner is the one of --owner-user-id
OwnerMatches(argv) ==
    /\ argv.siteId \in DOMAIN sites
    /\ sites[argv.siteId].owner_user_id = argv.ownerUserId

\* C21: a step of the override script, or of the purge script started with
\* --site-id, taken while the addressed site is missing or belongs to
\* another owner leaves the sites, the revisions and the buckets as they
\* are and ends the script with exit code 1.
C21_OwnerCheckedBeforeAnyChange ==
    [][/\ (/\ script' # script
           /\ script.kind = "override"
           /\ script.pc \notin {"off", "exit"}
           /\ ~OwnerMatches(script.argv)) =>
               /\ <<sites, revisions, storage>>' = <<sites, revisions, storage>>
               /\ script'.pc = "exit"
               /\ script'.exitCode = 1
       /\ (/\ purge' # purge
           /\ purge.pc \notin {"off", "exit"}
           /\ purge.argv.siteId # ""
           /\ ~OwnerMatches(purge.argv)) =>
               /\ <<sites, revisions, storage>>' = <<sites, revisions, storage>>
               /\ purge'.pc = "exit"
               /\ purge'.exitCode = 1]_vars

\* C21 witness: with the database reachable, the override script has exited
\* with 1 on a site that exists and belongs to another owner.
C21_Witness ==
    /\ configured
    /\ script.kind = "override"
    /\ script.pc = "exit"
    /\ script.exitCode = 1
    /\ script.argv.siteId \in DOMAIN sites
    /\ script.argv.ownerUserId = "u2"
    /\ sites[script.argv.siteId].owner_user_id = "u1"
    /\ sites[script.argv.siteId].html_content = "h1"
    /\ storage[BUCKET_SNAPSHOTS] = {}

\* C22: when the purge's deleteSiteById or deleteUserSites call reports
\* success, no revision left references a site the call deleted, and the
\* revisions of the sites it did not delete are exactly those of before.
C22_RevisionsDeletedWithTheirSite ==
    [][(/\ purge.pc = "delete-rows"
        /\ purge'.rows.called
        /\ purge'.rows.success) =>
            LET deleted == DOMAIN sites \ DOMAIN sites'
            IN  /\ \A r \in revisions' : r.site_id \notin deleted
                /\ {r \in revisions : r.site_id \notin deleted} = revisions']_vars

\* C22 witness: the delete call reported success for a purge of site s1,
\* whose revision is gone although its snapshot file was not removed.
C22_Witness ==
    /\ purge.pc = "exit"
    /\ purge.rows.called
    /\ purge.rows.success
    /\ "s1" \notin DOMAIN sites
    /\ storage[BUCKET_SNAPSHOTS] # {}
    /\ \A r \in revisions : r.site_id # "s1"

\* C23: once a purge started with --execute has finished with every
\* database and storage call successful, no bucket holds a file of a site
\* it purged (every file in the buckets was uploaded by an import or an
\* override execution).
C23_PurgeLeavesNoFile ==
    (/\ purge.pc = "exit"
     /\ purge.rows.called
     /\ ~purge.failed) =>
        \A b \in Range(PurgeBuckets) : \A f \in storage[b] :
           \A i \in 1..Len(purge.found) : f.site # purge.found[i].id

SuccessShape(result) ==
    /\ result.status = "success"
    /\ ~Has(result, "error_phase")
    /\ ~Has(result, "error_message")

ErrorShape(result) ==
    /\ result.status = "error"
    /\ Has(result, "error_phase")
    /\ result.error_phase \in ErrorPhases
    /\ Has(result, "error_message")
    /\ result.error_message # <<>>
    /\ Head(result.error_message) # ""
    /\ ~Has(result, "storage_path")
    /\ ~Has(result, "public_url")
    /\ ~Has(result, "html_size_bytes")

\* C24: the record a run of runPipeline returned is a success record without
\* error fields or an error record with one of the four phases, a non-empty
\* message and none of storage_path, public_url, html_size_bytes; its
\* status is never "partial".
C24_ResultIsSuccessOrError ==
    \A r \in Runs :
       Returned(r) =>
          /\ SuccessShape(runs[r].result) \/ ErrorShape(runs[r].result)
          /\ ~(SuccessShape(runs[r].result) /\ ErrorShape(runs[r].result))
          /\ runs[r].result.status # "partial"

\* C24 witness: one run returned an uploaded success record and another an
\* error record of the upload phase.
C24_Witness ==
    \E r \in Runs, q \in Runs :
       /\ Returned(r)
       /\ Returned(q)
       /\ runs[r].result.status = "success"
       /\ Has(runs[r].result, "storage_path")
       /\ runs[q].result.status = "error"
       /\ runs[q].result.error_phase = "upload"

\* the request body with the text as its business name
BodyNamed(text) == Obj([ValidFields EXCEPT !.business_name = Str(text)])

\* C28: the slug of a business name that passes validation is not empty, and
\* so POST /upload does not refuse it as a missing parameter.
C28_ValidNameHasSlug ==
    (slugOut.done /\ SafeParse(BodyNamed(slugIn)).success) =>
        /\ slugOut.value # <<>>
        /\ \A runId \in UploadRunIds \ {<<>>} :
               PostUploadReply(EmptyStore, EmptyStore, TRUE, runId,
                               slugOut.value, FALSE, "none", 0).code # 400

\* C25: POST /upload called with the run_id and business_slug a producer
\* returned, once index.html is saved, finds the file (it answers neither
\* 404 nor 400), and what a successful upload stored is the content of the
\* saved file.
C25_UploadFindsProducedFile ==
    (handoff.pc = "uploaded" /\ manualUpload.done) =>
        /\ manualUpload.code \notin {400, 404}
        /\ manualUpload.code = 200 =>
               bucket[manualUpload.body.storage_path] = disk[handoff.output_path]

\* what runPipeline returns for the body in mock mode, with or without the
\* upload, the storage client configured or not
MockResults(body) ==
    {runPipeline(body,
                 [useMock |-> TRUE, skipUpload |-> skipUpload,
                  outputDir |-> TRUE],
                 [architect |-> architect, builder |-> builder,
                  fsThrows |-> FALSE, configured |-> conf,
                  bucketFault |-> "none", uploadFault |-> "none"], 0, 0) :
        skipUpload \in BOOLEAN, conf \in BOOLEAN,
        architect \in ArchitectReplies, builder \in BuilderReplies}

\* C26: the step in which POST /validate answers leaves the bucket, the
\* output directory and the runs (their generator and storage calls) as
\* they are, and its answer is valid = true exactly when runPipeline on the
\* same body does not return error_phase "validation".
C26_ValidateAgreesWithPipeline ==
    [][(~validateOut.done /\ validateOut'.done) =>
          /\ <<bucket, disk, runs>>' = <<bucket, disk, runs>>
          /\ \A result \in MockResults(validateIn) :
                validateOut'.reply.valid <=> PhaseOf(result) # "validation"]_vars

\* C26 witness: POST /validate has refused a JSON object, which runPipeline
\* refuses in its validation phase.
C26_Witness ==
    /\ validateOut.done
    /\ validateIn.t = "object"
    /\ ~validateOut.reply.valid
    /\ \A result \in MockResults(validateIn) : PhaseOf(result) = "validation"

\* C27: provided each external call eventually returns or throws, every run
\* of runPipeline that was started ends by returning a result record with a
\* status, and never by throwing
C27_RunAlwaysReturns ==
    \A r \in Runs :
        Started(r) ~>
            /\ Returned(r)
            /\ Has(runs[r].result, "status")
            /\ runs[r].result.status \in {"success", "error"}

\* a run whose bucket check failed and whose upload threw has returned an
\* error record
C27_Witness ==
    \E r \in Runs :
        /\ Returned(r)
        /\ Called(r, "bucket")
        /\ ~runs[r].bucketExists
        /\ runs[r].thrown.site = "storage"
        /\ runs[r].result.status = "error"

\* the executions of processTask started for a file so far
TimesStarted(f) ==
    Cardinality({i \in DOMAIN watcher.started : watcher.started[i] = f})

\* runBuilder returned and the markup was written to the output directory
GeneratedAndSaved(f) ==
    WatcherOutputPath(extractTaskId(f)) \in DOMAIN disk

\* C29: when an execution of processTask has ended, the task file is in the
\* completed directory (and no longer in the pending one) exactly when the
\* markup was generated and saved locally, whatever the storage upload did;
\* after an empty prompt or a failed generation the file is still in the
\* pending directory and processTask was started for it only once.
C29_MovedExactlyWhenGeneratedAndSaved ==
    \A f \in FileNames :
        tasks[f].pc = "done" =>
            /\ (f \in DOMAIN completedDir) <=> GeneratedAndSaved(f)
            /\ (f \in DOMAIN completedDir) => f \notin DOMAIN pendingDir
            /\ tasks[f].outcome \in {"empty-prompt", "generation-failed"} =>
                  /\ f \in DOMAIN pendingDir
                  /\ TimesStarted(f) = 1

\* C30: every .md file that is in the pending directory while the watcher
\* runs, whether it was there at the start, was created during the start-up
\* pass or was created later, is eventually handed to processTask.
C30_EveryTaskFileIsProcessed ==
    \A f \in FileNames :
        (EndsWithMd(f) /\ f \in DOMAIN pendingDir) ~> (TimesStarted(f) >= 1)

====
